---- MODULE Spec2Model ----
(***************************************************************************)
(* SignalCrossCutJS: the reactive Signal (src/Signals/Signal.js) with the  *)
(* parsers (src/Parsing/Parsers.js) and validators (src/unnamed/part_000)  *)
(* it is constructed with, and the function wrappers of AOPToolkit         *)
(* (src/AOP/AOPToolkit.js), applied to functions and to a signal's write   *)
(* as in the demo (src/unnamed/part_001).  JavaScript runs the program on  *)
(* one thread;                                                             *)
(* the model keeps the call stack explicitly, one frame per running call,  *)
(* and every step of the model is a step of the frame on top of that       *)
(* stack.                                                                  *)
(***************************************************************************)
EXTENDS Integers, Sequences, FiniteSets, TLC

(***************************************************************************)
(* Bounds of the model.                                                    *)
(***************************************************************************)
\* Observer objects the callers create (createEffect and subscribe together).
MaxObs == 3
\* Top-level calls are made while every context array is shorter than this.
MaxCtx == 2
\* Top-level calls are made while every counter of runs is below this.
MaxRuns == 3
\* Observer objects the callers whose functions count their runs create.
MaxCounted == 2
\* Observer objects in all, those the observers' functions create included.
MaxFan == 4
\* Observer objects of a signal whose write has been wrapped.
MaxLogged == 2

(***************************************************************************)
(* JavaScript values.  A value is a number, a string (a sequence of        *)
(* one-character strings) or the object {age: n}.                          *)
(***************************************************************************)
Num(n) == [t |-> "number", n |-> n, s |-> <<>>]
Str(s) == [t |-> "string", n |-> 0, s |-> s]
Obj(a) == [t |-> "object", n |-> a, s |-> <<>>]

Digits == <<"0", "1", "2", "3", "4", "5", "6", "7", "8", "9">>
IsDigit(ch) == \E d \in DOMAIN Digits : Digits[d] = ch
DigitVal(ch) == (CHOOSE d \in DOMAIN Digits : Digits[d] = ch) - 1

RECURSIVE StripLeft(_)
StripLeft(s) == IF s # <<>> /\ Head(s) = " " THEN StripLeft(Tail(s)) ELSE s

RECURSIVE StripRight(_)
StripRight(s) ==
    IF s # <<>> /\ s[Len(s)] = " " THEN StripRight(SubSeq(s, 1, Len(s) - 1)) ELSE s

\* String.prototype.trim
Trim(s) == StripRight(StripLeft(s))

\* The value of the longest prefix of s made of decimal digits, from acc on.
RECURSIVE DigitRun(_, _)
DigitRun(s, acc) ==
    IF s # <<>> /\ IsDigit(Head(s))
    THEN DigitRun(Tail(s), 10 * acc + DigitVal(Head(s)))
    ELSE acc

\* parseInt(s, 10) of a string: leading white space, a sign, then digits; what
\* follows the digits is ignored; NaN when no digit is there.
ParseIntStr(s) ==
    LET t == StripLeft(s)
        neg == t # <<>> /\ Head(t) = "-"
        u == IF t # <<>> /\ Head(t) \in {"-", "+"} THEN Tail(t) ELSE t
    IN IF u # <<>> /\ IsDigit(Head(u))
       THEN [nan |-> FALSE, n |-> IF neg THEN 0 - DigitRun(u, 0) ELSE DigitRun(u, 0)]
       ELSE [nan |-> TRUE, n |-> 0]

\* parseInt(input, 10) of any value: the input is converted to a string first; an
\* integer's decimal string parses back to it, "[object Object]" has no digit.
ParseInt(v) ==
    CASE v.t = "string" -> ParseIntStr(v.s)
      [] v.t = "number" -> [nan |-> FALSE, n |-> v.n]
      [] OTHER -> [nan |-> TRUE, n |-> 0]

(***************************************************************************)
(* Parse stages.  A stage returns the parsed value or throws an Error.     *)
(***************************************************************************)
Returned(v) == [ok |-> TRUE, v |-> v, msg |-> ""]
Thrown(m) == [ok |-> FALSE, v |-> Num(0), msg |-> m]

positiveIntegerParser(input) ==
    LET parsed == ParseInt(input)
    IN IF parsed.nan THEN Thrown("Invalid integer")
       ELSE IF parsed.n <= 0 THEN Thrown("Number must be positive")
       ELSE Returned(Num(parsed.n))

trimParser(input) ==
    IF input.t # "string" THEN Thrown("Input must be a string")
    ELSE Returned(Str(Trim(input.s)))

\* A parse stage called by its name.
Parse(p, input) ==
    CASE p = "trimParser" -> trimParser(input)
      [] p = "positiveIntegerParser" -> positiveIntegerParser(input)

(***************************************************************************)
(* Validation stages.  A stage returns true or a message; `"age" in x`     *)
(* throws a TypeError when x is not an object.                              *)
(***************************************************************************)
Accept == [k |-> "true", msg |-> ""]
Reject(m) == [k |-> "string", msg |-> m]
TypeError == [k |-> "throw", msg |-> "TypeError"]

ageRangeValidator(oldState, newState) ==
    IF newState.t # "object" THEN TypeError
    ELSE IF newState.n < 0 \/ newState.n > 150
         THEN Reject("Age must be between 0 and 150.")
         ELSE Accept

\* nonNegativeValidator("age")
nonNegativeValidator(oldState, newState) ==
    IF newState.t # "object" THEN TypeError
    ELSE IF newState.n < 0 THEN Reject("Age cannot be negative.") ELSE Accept

\* uniqueValueValidator("age", []): oldState.age is undefined, and filtered out,
\* when oldState is not an object.
uniqueValueValidator(oldState, newState) ==
    IF newState.t # "object" THEN TypeError
    ELSE LET currentValues == IF oldState.t = "object" THEN {oldState.n} ELSE {}
         IN IF newState.n \in currentValues THEN Reject("Age must be unique.")
            ELSE Accept

\* requiredFieldsValidator([]): no field is required, the loop body never runs.
requiredFieldsValidator(oldState, newState) == Accept

\* What a stage written by the callers returns when it returns neither true nor
\* a message: false, or undefined.
False == [k |-> "false", msg |-> "false"]
NoResult == [k |-> "undefined", msg |-> "undefined"]

\* (oldState, newState) => newState > 0, for a number or an object (an object
\* converts to NaN, and NaN > 0 is false).
positiveCheck(oldState, newState) ==
    CASE newState.t = "number" -> IF newState.n > 0 THEN Accept ELSE False
      [] newState.t = "object" -> False

\* (oldState, newState) => { if (newState < 0) return "Value cannot be negative." }
noNegative(oldState, newState) ==
    CASE newState.t = "number" ->
            IF newState.n < 0 THEN Reject("Value cannot be negative.") ELSE NoResult
      [] newState.t = "object" -> NoResult

\* A validation stage called by its name.
Validate(v, oldState, newState) ==
    CASE v = "positiveCheck" -> positiveCheck(oldState, newState)
      [] v = "noNegative" -> noNegative(oldState, newState)
      [] v = "ageRangeValidator" -> ageRangeValidator(oldState, newState)
      [] v = "nonNegativeValidator" -> nonNegativeValidator(oldState, newState)
      [] v = "uniqueValueValidator" -> uniqueValueValidator(oldState, newState)
      [] v = "requiredFieldsValidator" -> requiredFieldsValidator(oldState, newState)

(***************************************************************************)
(* The state: the fields of the Signal objects, the observer objects       *)
(* created so far, and the call stack.                                     *)
(***************************************************************************)
VARIABLES
    signals,        \* signal -> its constructor arguments (validators, parsers)
    value,          \* signal -> this.value
    subscriptions,  \* signal -> this.subscriptions, a Set in insertion order
    context,        \* signal -> this.context, an array of observers
    observers,      \* the observer objects, in order of creation
    stack,          \* the call stack, the running call last
    counter         \* function -> the counter its body increments

vars == <<signals, value, subscriptions, context, observers, stack, counter>>

\* new Signal(10), as the demo constructs it.
PlainSignal ==
    [initialValue |-> Num(10), validators |-> <<>>, parsers |-> <<>>]
\* new Signal(10, [requiredFieldsValidator([])], [trimParser, positiveIntegerParser])
ParsedSignal ==
    [initialValue |-> Num(10),
     validators |-> <<"requiredFieldsValidator">>,
     parsers |-> <<"trimParser", "positiveIntegerParser">>]
\* new Signal({age: 10}, [ageRangeValidator, nonNegativeValidator("age"),
\*                        uniqueValueValidator("age", [])])
ValidatedSignal ==
    [initialValue |-> Obj(10),
     validators |-> <<"ageRangeValidator", "nonNegativeValidator", "uniqueValueValidator">>,
     parsers |-> <<>>]

Signals == DOMAIN signals

\* The raw values the callers write to a signal.
RawInputs(c) ==
    IF signals[c].parsers # <<>>
    THEN {Str(<<" ", "7", " ">>), Str(<<"-", "3", "x">>), Str(<<"x">>), Num(5)}
    ELSE IF signals[c].validators # <<>>
         THEN {Obj(20), Obj(200), Obj(0 - 5), Num(5)}
         ELSE {Num(5), Num(7)}

(***************************************************************************)
(* The functions the callers hand to createEffect and subscribe, as the    *)
(* sequence of calls each makes.                                           *)
(***************************************************************************)
Instr(op, c, v) == [op |-> op, cell |-> c, v |-> v]
\* c.subscribe(fn) or c.createEffect(fn)
Make(op, c, fn) == [op |-> op, cell |-> c, fn |-> fn]
\* The call of the function subscribe returned for observer o of c.
Drop(c, o) == [op |-> "unsubscribe", cell |-> c, obs |-> o]

Body(fn) ==
    CASE fn = "nop" -> <<>>
      [] fn = "readA" -> <<Instr("read", "A", Num(0))>>
      [] fn = "readB" -> <<Instr("read", "B", Num(0))>>
      [] fn = "throw" -> <<Instr("throw", "A", Num(0))>>
      [] fn = "readAthrow" -> <<Instr("read", "A", Num(0)), Instr("throw", "A", Num(0))>>
      \* if (A.value !== 5) A.write(5)
      [] fn = "resetA" -> <<Instr("reset", "A", Num(5))>>
      \* () => { A.read(); counter++ }
      [] fn = "readAcount" -> <<Instr("read", "A", Num(0)), Instr("count", "A", Num(0))>>
      \* () => { if (counter === 0) A.read(); counter++ }
      [] fn = "readAfirst" -> <<Instr("readFirst", "A", Num(0)), Instr("count", "A", Num(0))>>
      \* () => { A.read(); A.read() }
      [] fn = "readAtwice" -> <<Instr("read", "A", Num(0)), Instr("read", "A", Num(0))>>
      \* () => { counter++ }
      [] fn = "count" -> <<Instr("count", "A", Num(0))>>
      \* () => { counter++; throw new Error() }
      [] fn = "countthrow" -> <<Instr("count", "A", Num(0)), Instr("throw", "A", Num(0))>>
      \* () => { A.subscribe(nop) }
      [] fn = "subNop" -> <<Make("subscribe", "A", "nop")>>
      \* function subSelf() { A.subscribe(subSelf) }
      [] fn = "subSelf" -> <<Make("subscribe", "A", "subSelf")>>
      \* () => { unsubscribe1() }, unsubscribe1 being what subscribe returned for
      \* the first observer; likewise for the second
      [] fn = "drop1" -> <<Drop("A", 1)>>
      [] fn = "drop2" -> <<Drop("A", 2)>>
      \* () => { A.createEffect(() => A.read()); A.read() }
      [] fn = "outer" -> <<Make("createEffect", "A", "readA"), Instr("read", "A", Num(0))>>

\* The functions that keep a counter of their runs.
Counting == {"readAcount", "readAfirst", "count", "countthrow"}

\* The functions the callers have at hand for createEffect and for subscribe on
\* signal c.  The function that writes is used where its write can commit.
EffectFns(c) ==
    IF "B" \in Signals
    THEN IF c = "A" THEN {"readA", "readB"} ELSE {"readB", "throw"}
    ELSE {"readA", "throw", "readAthrow"}

SubscribeFns(c) ==
    IF "B" \in Signals
    THEN IF c = "A" THEN {"resetA"} ELSE {}
    ELSE IF signals[c].parsers = <<>> /\ signals[c].validators = <<>>
         THEN {"nop", "throw", "resetA"}
         ELSE {"nop", "throw"}

(***************************************************************************)
(* Set, as JavaScript keeps it: in insertion order, each element once.     *)
(***************************************************************************)
Has(S, o) == \E i \in DOMAIN S : S[i] = o

\* A Set whose add moves an element already there to the end.
SetAddMove(S, o) == Append(SelectSeq(S, LAMBDA x : x # o), o)

\* A collection that takes an element once more each time it is added.
SetAddAgain(S, o) == Append(S, o)

\* Set.prototype.add: an element already there keeps its place.
SetAdd(S, o) == IF Has(S, o) THEN S ELSE Append(S, o)

\* A delete that takes an observer for its function: every entry that runs the
\* function of o goes.
SetDeleteByFn(S, o) == SelectSeq(S, LAMBDA x : observers[x].fn # observers[o].fn)

\* A delete that, for an element that is not there, removes the last one.
SetDeleteOrLast(S, o) ==
    IF Has(S, o) THEN SelectSeq(S, LAMBDA x : x # o)
    ELSE SubSeq(S, 1, Len(S) - 1)

\* Set.prototype.delete
SetDelete(S, o) == SelectSeq(S, LAMBDA x : x # o)

Last(s) == s[Len(s)]
Front(s) == SubSeq(s, 1, Len(s) - 1)
Top == Last(stack)
SetTop(f) == [stack EXCEPT ![Len(stack)] = f]

(***************************************************************************)
(* Signal.write, lines 24-50.                                              *)
(***************************************************************************)
\* The frame of a call of write.  old, subs0, runs0, parsed, validated, reports
\* and executed record what the call saw and did.
WriteFrame(c, raw) ==
    [op |-> "write", cell |-> c, raw |-> raw, value |-> raw, pc |-> "parse",
     idx |-> 1, old |-> value[c], subs0 |-> subscriptions[c],
     parsed |-> <<>>, validated |-> <<>>, reports |-> <<>>, executed |-> <<>>,
     committed |-> FALSE, nested |-> FALSE, runs0 |-> counter]

\* A parse loop whose handler reports the failure and goes on with the next stage.
RECURSIVE ParseFromNoAbort(_, _, _, _, _)
ParseFromNoAbort(parsers, i, v, calls, reports) ==
    IF i > Len(parsers)
    THEN [aborted |-> FALSE, v |-> v, calls |-> calls, reports |-> reports]
    ELSE LET r == Parse(parsers[i], v)
         IN ParseFromNoAbort(parsers, i + 1, IF r.ok THEN r.v ELSE v,
                             Append(calls, parsers[i]),
                             IF r.ok THEN reports
                             ELSE Append(reports, [kind |-> "parse", errors |-> <<r.msg>>]))

\* Lines 28-35: the parse loop from stage i on; a stage that throws is reported
\* and the loop, with write, returns.
RECURSIVE ParseFrom(_, _, _, _, _)
ParseFrom(parsers, i, v, calls, reports) ==
    IF i > Len(parsers)
    THEN [aborted |-> FALSE, v |-> v, calls |-> calls, reports |-> reports]
    ELSE LET r == Parse(parsers[i], v)
         IN IF r.ok
            THEN ParseFrom(parsers, i + 1, r.v, Append(calls, parsers[i]), reports)
            ELSE [aborted |-> TRUE, v |-> v, calls |-> Append(calls, parsers[i]),
                  reports |-> Append(reports, [kind |-> "parse", errors |-> <<r.msg>>])]

WriteParse ==
    /\ stack # <<>> /\ Top.op = "write" /\ Top.pc = "parse"
    /\ LET r == ParseFrom(signals[Top.cell].parsers, 1, Top.raw, <<>>, <<>>)
       IN stack' = SetTop([Top EXCEPT !.value = r.v, !.parsed = r.calls,
                                      !.reports = r.reports,
                                      !.pc = IF r.aborted THEN "done" ELSE "validate"])
    /\ UNCHANGED <<signals, counter, value, subscriptions, context, observers>>

\* A validation that stops at the first stage that does not return true.
RECURSIVE ValidateFromShort(_, _, _, _, _, _)
ValidateFromShort(validators, i, oldState, newState, results, calls) ==
    IF i > Len(validators)
    THEN [thrown |-> FALSE, results |-> results, calls |-> calls]
    ELSE LET r == Validate(validators[i], oldState, newState)
             called == Append(calls, [stage |-> validators[i], old |-> oldState,
                                      new |-> newState])
         IN IF r.k = "throw"
            THEN [thrown |-> TRUE, results |-> results, calls |-> called]
            ELSE IF r.k # "true"
                 THEN [thrown |-> FALSE, results |-> Append(results, r), calls |-> called]
                 ELSE ValidateFromShort(validators, i + 1, oldState, newState,
                                        Append(results, r), called)

\* Line 38: validators.map(...) from stage i on; a stage that throws ends the map.
RECURSIVE ValidateFrom(_, _, _, _, _, _)
ValidateFrom(validators, i, oldState, newState, results, calls) ==
    IF i > Len(validators)
    THEN [thrown |-> FALSE, results |-> results, calls |-> calls]
    ELSE LET r == Validate(validators[i], oldState, newState)
             called == Append(calls, [stage |-> validators[i], old |-> oldState,
                                      new |-> newState])
         IN IF r.k = "throw"
            THEN [thrown |-> TRUE, results |-> results, calls |-> called]
            ELSE ValidateFrom(validators, i + 1, oldState, newState,
                              Append(results, r), called)

\* A filter that takes only false for an error.
ErrorsOnlyFalse(validationResults) ==
    SelectSeq(validationResults, LAMBDA r : r.k = "false")

\* A filter that takes only a message for an error.
ErrorsOnlyStrings(validationResults) ==
    SelectSeq(validationResults, LAMBDA r : r.k = "string")

\* Line 39: the results that are not true.
Errors(validationResults) == SelectSeq(validationResults, LAMBDA r : r.k # "true")

WriteValidate ==
    /\ stack # <<>> /\ Top.op = "write" /\ Top.pc = "validate"
    /\ LET r == ValidateFrom(signals[Top.cell].validators, 1, value[Top.cell],
                             Top.value, <<>>, <<>>)
           errors == Errors(r.results)
       IN stack' = SetTop(
            [Top EXCEPT !.validated = r.calls,
                        !.reports = IF ~r.thrown /\ errors # <<>>
                                    THEN Append(@, [kind |-> "validation",
                                                    errors |-> [j \in DOMAIN errors |-> errors[j].msg]])
                                    ELSE @,
                        !.pc = IF r.thrown THEN "threw"
                               ELSE IF errors # <<>> THEN "done" ELSE "commit"])
    /\ UNCHANGED <<signals, counter, value, subscriptions, context, observers>>

\* A commit of the raw input.
CommitRaw(f) == f.raw

\* Line 46: what write assigns to this.value.
CommitValue(f) == f.value

\* A write that returns, without a commit and without notifying, when the value
\* it would assign is the value the signal has.
WriteCommitShortCircuit ==
    /\ stack # <<>> /\ Top.op = "write" /\ Top.pc = "commit"
    /\ value' = [value EXCEPT ![Top.cell] = CommitValue(Top)]
    /\ stack' = IF CommitValue(Top) = value[Top.cell]
                THEN SetTop([Top EXCEPT !.pc = "done"])
                ELSE SetTop([Top EXCEPT !.committed = TRUE, !.pc = "notify"])
    /\ UNCHANGED <<signals, counter, subscriptions, context, observers>>

\* A write that notifies the observers before it assigns the value.
WriteCommitAfterNotify ==
    /\ stack # <<>> /\ Top.op = "write" /\ Top.pc = "commit"
    /\ stack' = SetTop([Top EXCEPT !.committed = TRUE, !.pc = "notify"])
    /\ UNCHANGED <<signals, counter, value, subscriptions, context, observers>>

\* Line 46.  The writes still running on the same signal are marked nested: the
\* value they committed has been replaced.
WriteCommit ==
    /\ stack # <<>> /\ Top.op = "write" /\ Top.pc = "commit"
    /\ value' = [value EXCEPT ![Top.cell] = CommitValue(Top)]
    /\ stack' = [i \in DOMAIN stack |->
                    IF i = Len(stack)
                    THEN [Top EXCEPT !.committed = TRUE, !.pc = "notify"]
                    ELSE IF stack[i].op = "write" /\ stack[i].cell = Top.cell
                         THEN [stack[i] EXCEPT !.nested = TRUE]
                         ELSE stack[i]]
    /\ UNCHANGED <<signals, counter, subscriptions, context, observers>>

\* The frame of observer.execute(): an effect's execute is the closure of lines
\* 71-75, a subscription's is the subscribed function itself (line 89).
FnFrame(o) == [op |-> "fn", obs |-> o, ip |-> 1, pc |-> "run"]
ExecuteFrame(o) ==
    IF observers[o].kind = "effect"
    THEN [op |-> "execute", obs |-> o, pc |-> "push",
          ctx0 |-> context[observers[o].cell]]
    ELSE FnFrame(o)

\* A loop that does not move on: it calls the observer it has reached again.
WriteNotifyAgain ==
    /\ stack # <<>> /\ Top.op = "write" /\ Top.pc = "notify"
    /\ Top.idx <= Len(subscriptions[Top.cell])
    /\ stack' = Append(stack, ExecuteFrame(subscriptions[Top.cell][Top.idx]))
    /\ UNCHANGED <<signals, counter, value, subscriptions, context, observers>>

\* A loop over the observers that were in the Set when write was called.
WriteNotifySnapshot ==
    /\ stack # <<>> /\ Top.op = "write" /\ Top.pc = "notify"
    /\ Top.idx <= Len(Top.subs0)
    /\ LET o == Top.subs0[Top.idx]
       IN stack' = Append(SetTop([Top EXCEPT !.idx = @ + 1,
                                             !.executed = Append(@, o)]),
                          ExecuteFrame(o))
    /\ UNCHANGED <<signals, counter, value, subscriptions, context, observers>>

\* Lines 47-49: the for-of loop calls the next observer of the Set.
WriteNotify ==
    /\ stack # <<>> /\ Top.op = "write" /\ Top.pc = "notify"
    /\ Top.idx <= Len(subscriptions[Top.cell])
    /\ LET o == subscriptions[Top.cell][Top.idx]
       IN stack' = Append(SetTop([Top EXCEPT !.idx = @ + 1,
                                             !.executed = Append(@, o)]),
                          ExecuteFrame(o))
    /\ UNCHANGED <<signals, counter, value, subscriptions, context, observers>>

\* A write that assigns its value once more when the loop is over.
WriteNotifyEndReassign ==
    /\ stack # <<>> /\ Top.op = "write" /\ Top.pc = "notify"
    /\ Top.idx > Len(subscriptions[Top.cell])
    /\ value' = [value EXCEPT ![Top.cell] = CommitValue(Top)]
    /\ stack' = SetTop([Top EXCEPT !.pc = "done"])
    /\ UNCHANGED <<signals, counter, subscriptions, context, observers>>

\* Line 50: the loop is over, write returns.
WriteNotifyEnd ==
    /\ stack # <<>> /\ Top.op = "write" /\ Top.pc = "notify"
    /\ Top.idx > Len(subscriptions[Top.cell])
    /\ stack' = SetTop([Top EXCEPT !.pc = "done"])
    /\ UNCHANGED <<signals, counter, value, subscriptions, context, observers>>

(***************************************************************************)
(* Signal.read, lines 56-62.                                               *)
(***************************************************************************)
\* A read that registers the effect running now, whichever signal it is of.
ReadObserverRunning(c) ==
    LET running == {i \in DOMAIN stack : stack[i].op = "execute"}
    IN IF running = {} THEN 0
       ELSE stack[CHOOSE i \in running : \A j \in running : j <= i].obs

\* A read that registers the outermost of the effects that are running.
ReadObserverOutermost(c) == IF context[c] = <<>> THEN 0 ELSE context[c][1]

\* Line 57: the observer read registers, 0 for undefined.
ReadObserver(c) == IF context[c] = <<>> THEN 0 ELSE Last(context[c])

\* A read that keeps, of the effects, only the one that is running.
ReadSubscriptionsPruned(c) ==
    IF ReadObserver(c) # 0
    THEN Append(SelectSeq(subscriptions[c],
                          LAMBDA o : observers[o].kind = "sub" /\ o # ReadObserver(c)),
                ReadObserver(c))
    ELSE subscriptions[c]

\* Lines 58-60.
ReadSubscriptions(c) ==
    IF ReadObserver(c) # 0 THEN SetAdd(subscriptions[c], ReadObserver(c))
    ELSE subscriptions[c]

\* The frame of a call of read, which has run: ret is what it returns.
ReadFrame(c) ==
    [op |-> "read", cell |-> c, pc |-> "done", ret |-> value[c],
     subs0 |-> subscriptions[c]]

(***************************************************************************)
(* The effect's execute, lines 71-75, and the functions it calls.          *)
(***************************************************************************)
\* Lines 72-73.
EffectPush ==
    /\ stack # <<>> /\ Top.op = "execute" /\ Top.pc = "push"
    /\ LET c == observers[Top.obs].cell
       IN context' = [context EXCEPT ![c] = Append(@, Top.obs)]
    /\ stack' = Append(SetTop([Top EXCEPT !.pc = "pop"]), FnFrame(Top.obs))
    /\ UNCHANGED <<signals, counter, value, subscriptions, observers>>

\* Line 74, reached when fn has returned.
EffectPop ==
    /\ stack # <<>> /\ Top.op = "execute" /\ Top.pc = "pop"
    /\ LET c == observers[Top.obs].cell
       IN context' = [context EXCEPT ![c] = Front(@)]
    /\ stack' = SetTop([Top EXCEPT !.pc = "done"])
    /\ UNCHANGED <<signals, counter, value, subscriptions, observers>>

Running == stack # <<>> /\ Top.op = "fn" /\ Top.pc = "run"
Code == Body(observers[Top.obs].fn)
Advance == SetTop([Top EXCEPT !.ip = @ + 1])

FnRead ==
    /\ Running /\ Top.ip <= Len(Code) /\ Code[Top.ip].op = "read"
    /\ LET c == Code[Top.ip].cell
       IN /\ subscriptions' = [subscriptions EXCEPT ![c] = ReadSubscriptions(c)]
          /\ stack' = Append(Advance, ReadFrame(c))
    /\ UNCHANGED <<signals, counter, value, context, observers>>

FnReset ==
    /\ Running /\ Top.ip <= Len(Code) /\ Code[Top.ip].op = "reset"
    /\ LET c == Code[Top.ip].cell
           v == Code[Top.ip].v
       IN stack' = IF value[c] # v THEN Append(Advance, WriteFrame(c, v))
                   ELSE Advance
    /\ UNCHANGED <<signals, counter, value, subscriptions, context, observers>>

\* if (counter === 0) A.read(): the read is made on the first run only.
FnReadFirst ==
    /\ Running /\ Top.ip <= Len(Code) /\ Code[Top.ip].op = "readFirst"
    /\ LET c == Code[Top.ip].cell
           first == counter[observers[Top.obs].fn] = 0
       IN /\ subscriptions' = [subscriptions EXCEPT
                                  ![c] = IF first THEN ReadSubscriptions(c) ELSE @]
          /\ stack' = IF first THEN Append(Advance, ReadFrame(c)) ELSE Advance
    /\ UNCHANGED <<signals, counter, value, context, observers>>

\* counter++
FnCount ==
    /\ Running /\ Top.ip <= Len(Code) /\ Code[Top.ip].op = "count"
    /\ counter' = [counter EXCEPT ![observers[Top.obs].fn] = @ + 1]
    /\ stack' = Advance
    /\ UNCHANGED <<signals, value, subscriptions, context, observers>>

\* c.subscribe(fn) called by the function: lines 87-94.
FnSubscribe ==
    /\ Running /\ Top.ip <= Len(Code) /\ Code[Top.ip].op = "subscribe"
    /\ Len(observers) < MaxFan
    /\ LET c == Code[Top.ip].cell
       IN /\ observers' = Append(observers, [kind |-> "sub", cell |-> c,
                                             fn |-> Code[Top.ip].fn])
          /\ subscriptions' = [subscriptions EXCEPT ![c] = SetAdd(@, Len(observers) + 1)]
    /\ stack' = Advance
    /\ UNCHANGED <<signals, counter, value, context>>

\* The place of o in S, 0 when it is not there.
IndexOf(S, o) == IF Has(S, o) THEN CHOOSE i \in DOMAIN S : S[i] = o ELSE 0

\* An iteration that goes on from the same index when an element is deleted.
Unshifted(f, c, o) == f

\* A for-of loop of line 47 that is running when o is deleted from the Set of c:
\* the iterator of the Set goes on with the element that followed the one it
\* has reached, so its index in the Set without o is one less when o was before.
Shifted(f, c, o) ==
    IF f.op = "write" /\ f.cell = c /\ f.pc = "notify"
       /\ IndexOf(subscriptions[c], o) # 0 /\ IndexOf(subscriptions[c], o) < f.idx
    THEN [f EXCEPT !.idx = @ - 1]
    ELSE f

\* The function subscribe returned, called by the function: line 93.
FnUnsubscribe ==
    /\ Running /\ Top.ip <= Len(Code) /\ Code[Top.ip].op = "unsubscribe"
    /\ LET c == Code[Top.ip].cell
           o == Code[Top.ip].obs
       IN /\ subscriptions' = [subscriptions EXCEPT ![c] = SetDelete(@, o)]
          /\ stack' = [i \in DOMAIN stack |->
                          IF i = Len(stack) THEN Advance[i] ELSE Shifted(stack[i], c, o)]
    /\ UNCHANGED <<signals, counter, value, context, observers>>

\* c.createEffect(fn) called by the function: lines 69-80.
FnCreateEffect ==
    /\ Running /\ Top.ip <= Len(Code) /\ Code[Top.ip].op = "createEffect"
    /\ Len(observers) < MaxFan
    /\ LET c == Code[Top.ip].cell
       IN /\ observers' = Append(observers, [kind |-> "effect", cell |-> c,
                                             fn |-> Code[Top.ip].fn])
          /\ stack' = Advance \o
                         <<[op |-> "createEffect", obs |-> Len(observers) + 1,
                            pc |-> "done", runs0 |-> counter],
                           [op |-> "execute", obs |-> Len(observers) + 1, pc |-> "push",
                            ctx0 |-> context[c]]>>
    /\ UNCHANGED <<signals, counter, value, subscriptions, context>>

FnThrow ==
    /\ Running /\ Top.ip <= Len(Code) /\ Code[Top.ip].op = "throw"
    /\ stack' = SetTop([Top EXCEPT !.pc = "threw"])
    /\ UNCHANGED <<signals, counter, value, subscriptions, context, observers>>

FnReturn ==
    /\ Running /\ Top.ip > Len(Code)
    /\ stack' = SetTop([Top EXCEPT !.pc = "done"])
    /\ UNCHANGED <<signals, counter, value, subscriptions, context, observers>>

(***************************************************************************)
(* Return and exceptions.  No call of the program but the parse loop has a *)
(* handler, so an exception ends every running call in turn.               *)
(***************************************************************************)
Return ==
    /\ stack # <<>> /\ Top.pc = "done"
    /\ stack' = Front(stack)
    /\ UNCHANGED <<signals, counter, value, subscriptions, context, observers>>

\* A caller that catches what its callee threw and goes on.
UnwindCaught(caller) == caller

\* The caller of a call that threw.
Unwind(caller) == [caller EXCEPT !.pc = "threw"]

Propagate ==
    /\ stack # <<>> /\ Top.pc = "threw"
    /\ stack' = IF Len(stack) = 1 THEN <<>>
                ELSE [Front(stack) EXCEPT ![Len(stack) - 1] = Unwind(@)]
    /\ UNCHANGED <<signals, counter, value, subscriptions, context, observers>>

(***************************************************************************)
(* The calls of the program's callers, made when nothing is running.       *)
(***************************************************************************)
Idle == stack = <<>> /\ \A c \in Signals : Len(context[c]) < MaxCtx

CallWrite(c, raw) ==
    /\ Idle
    /\ stack' = <<WriteFrame(c, raw)>>
    /\ UNCHANGED <<signals, counter, value, subscriptions, context, observers>>

CallRead(c) ==
    /\ Idle
    /\ subscriptions' = [subscriptions EXCEPT ![c] = ReadSubscriptions(c)]
    /\ stack' = <<ReadFrame(c)>>
    /\ UNCHANGED <<signals, counter, value, context, observers>>

\* A createEffect that subscribes the effect and leaves its first run to the
\* next write.
CallCreateEffectLazy(c, fn) ==
    /\ Idle /\ Len(observers) < MaxObs
    /\ observers' = Append(observers, [kind |-> "effect", cell |-> c, fn |-> fn])
    /\ subscriptions' = [subscriptions EXCEPT ![c] = SetAdd(@, Len(observers) + 1)]
    /\ stack' = <<[op |-> "createEffect", obs |-> Len(observers) + 1, pc |-> "done",
                   runs0 |-> counter]>>
    /\ UNCHANGED <<signals, counter, value, context>>

\* Lines 69-80: the effect object is made and executed.
CallCreateEffect(c, fn) ==
    /\ Idle /\ Len(observers) < MaxObs
    /\ observers' = Append(observers, [kind |-> "effect", cell |-> c, fn |-> fn])
    /\ stack' = <<[op |-> "createEffect", obs |-> Len(observers) + 1, pc |-> "done",
                   runs0 |-> counter],
                  [op |-> "execute", obs |-> Len(observers) + 1, pc |-> "push",
                   ctx0 |-> context[c]]>>
    /\ UNCHANGED <<signals, counter, value, subscriptions, context>>

\* A subscribe that calls the function once when it registers it.
CallSubscribeEager(c, fn) ==
    /\ Idle /\ Len(observers) < MaxObs
    /\ observers' = Append(observers, [kind |-> "sub", cell |-> c, fn |-> fn])
    /\ subscriptions' = [subscriptions EXCEPT ![c] = SetAdd(@, Len(observers) + 1)]
    /\ stack' = <<[op |-> "fn", obs |-> Len(observers) + 1, ip |-> 1, pc |-> "run"]>>
    /\ UNCHANGED <<signals, counter, value, context>>

\* Lines 87-94.
CallSubscribe(c, fn) ==
    /\ Idle /\ Len(observers) < MaxObs
    /\ observers' = Append(observers, [kind |-> "sub", cell |-> c, fn |-> fn])
    /\ subscriptions' = [subscriptions EXCEPT ![c] = SetAdd(@, Len(observers) + 1)]
    /\ UNCHANGED <<signals, counter, value, context, stack>>

\* Line 93: the function subscribe returned for observer o.
CallUnsubscribe(o) ==
    /\ Idle /\ observers[o].kind = "sub"
    /\ subscriptions' = [subscriptions EXCEPT ![observers[o].cell] = SetDelete(@, o)]
    /\ UNCHANGED <<signals, counter, value, context, observers, stack>>

\* Lines 12-18.
Construct(args) ==
    /\ signals = args
    /\ value = [c \in DOMAIN args |-> args[c].initialValue]
    /\ subscriptions = [c \in DOMAIN args |-> <<>>]
    /\ context = [c \in DOMAIN args |-> <<>>]
    /\ observers = <<>>
    /\ stack = <<>>
    /\ counter = [fn \in Counting |-> 0]

\* One signal, constructed in one of three ways.
Init == \E k \in {PlainSignal, ParsedSignal, ValidatedSignal} : Construct([c \in {"A"} |-> k])

\* Two signals without pipelines.
InitTwo == Construct([c \in {"A", "B"} |-> PlainSignal])

Next ==
    \/ \E c \in Signals : \E raw \in RawInputs(c) : CallWrite(c, raw)
    \/ \E c \in Signals : CallRead(c)
    \/ \E c \in Signals : \E fn \in EffectFns(c) : CallCreateEffect(c, fn)
    \/ \E c \in Signals : \E fn \in SubscribeFns(c) : CallSubscribe(c, fn)
    \/ \E o \in DOMAIN observers : CallUnsubscribe(o)
    \/ WriteParse
    \/ WriteValidate
    \/ WriteCommit
    \/ WriteNotify
    \/ WriteNotifyEnd
    \/ EffectPush
    \/ EffectPop
    \/ FnRead
    \/ FnReset
    \/ FnThrow
    \/ FnReturn
    \/ Return
    \/ Propagate

Spec == Init /\ [][Next]_vars

SpecTwo == InitTwo /\ [][Next]_vars

(***************************************************************************)
(* The callers whose functions count their runs (the counter of the        *)
(* effect that reads the signal, the counter of a subscribed function).    *)
(***************************************************************************)
CountingEffects == {"readAcount", "readAfirst", "readAtwice"}
CountingSubscribers == {"count", "countthrow"}

Budget == \A fn \in Counting : counter[fn] < MaxRuns

NextRuns ==
    \/ \E c \in Signals : \E raw \in RawInputs(c) : Budget /\ CallWrite(c, raw)
    \/ \E c \in Signals : Budget /\ CallRead(c)
    \/ \E c \in Signals : \E fn \in CountingEffects :
          Budget /\ Len(observers) < MaxCounted /\ CallCreateEffect(c, fn)
    \/ \E c \in Signals : \E fn \in CountingSubscribers :
          Budget /\ Len(observers) < MaxCounted /\ CallSubscribe(c, fn)
    \/ \E o \in DOMAIN observers : CallUnsubscribe(o)
    \/ WriteParse
    \/ WriteValidate
    \/ WriteCommit
    \/ WriteNotify
    \/ WriteNotifyEnd
    \/ EffectPush
    \/ EffectPop
    \/ FnRead
    \/ FnReadFirst
    \/ FnCount
    \/ FnThrow
    \/ FnReturn
    \/ Return
    \/ Propagate

SpecRuns == Init /\ [][NextRuns]_vars

(***************************************************************************)
(* What the claims speak of: the stages of a pipeline applied in order,    *)
(* and the calls of write that are running or have just finished.          *)
(***************************************************************************)
\* The input of parse stage k when the stages before it have returned.
RECURSIVE StageInput(_, _, _)
StageInput(parsers, raw, k) ==
    IF k = 1 THEN raw ELSE Parse(parsers[k - 1], StageInput(parsers, raw, k - 1)).v

\* The first parse stage that fails on raw, 0 when none does.
FailingStage(parsers, raw) ==
    LET failing == {k \in DOMAIN parsers : ~Parse(parsers[k], StageInput(parsers, raw, k)).ok}
    IN IF failing = {} THEN 0 ELSE CHOOSE k \in failing : \A j \in failing : k <= j

\* The parse stages applied to raw in pipeline order.
FullyParsed(parsers, raw) == StageInput(parsers, raw, Len(parsers) + 1)

Writes == {i \in DOMAIN stack : stack[i].op = "write"}
Parsers(f) == signals[f.cell].parsers
Validators(f) == signals[f.cell].validators
PassesParsing(f) == FailingStage(Parsers(f), f.raw) = 0
\* The outcome of validation stage j on the pair write f hands to it.
Outcome(f, j) == Validate(Validators(f)[j], f.old, FullyParsed(Parsers(f), f.raw))
Rejecting(f) == {j \in DOMAIN Validators(f) : Outcome(f, j).k \notin {"true", "throw"}}
Throwing(f) == {j \in DOMAIN Validators(f) : Outcome(f, j).k = "throw"}
Finished(f) == f.pc \in {"done", "threw"}

\* C1: a write whose parsed value a validation stage rejects leaves the value
\* as it was before the write and executes no observer.
C1_RejectedWriteChangesNothing ==
    \A i \in Writes :
        LET f == stack[i]
        IN PassesParsing(f) /\ Rejecting(f) # {} /\ f.pc \notin {"parse", "validate"}
           => /\ Finished(f)
              /\ ~f.committed
              /\ value[f.cell] = f.old
              /\ f.executed = <<>>

C1_Witness ==
    \E i \in Writes :
        LET f == stack[i]
        IN /\ PassesParsing(f) /\ Rejecting(f) # {} /\ f.pc = "done"
           /\ subscriptions[f.cell] # <<>>
           /\ FullyParsed(Parsers(f), f.raw) # f.old

\* C2: when a parse stage fails the write stops there: no later parse stage and
\* no validation stage runs, the value is unchanged, no observer is executed,
\* the failure is reported once, and write returns normally.
C2_ParseFailureAborts ==
    \A i \in Writes :
        LET f == stack[i]
            k == FailingStage(Parsers(f), f.raw)
        IN k # 0 /\ f.pc # "parse"
           => /\ f.pc = "done"
              /\ f.parsed = SubSeq(Parsers(f), 1, k)
              /\ f.validated = <<>>
              /\ ~f.committed
              /\ value[f.cell] = f.old
              /\ f.executed = <<>>
              /\ f.reports = <<[kind |-> "parse",
                                errors |-> <<Parse(Parsers(f)[k],
                                                   StageInput(Parsers(f), f.raw, k)).msg>>]>>

C2_Witness ==
    \E i \in Writes :
        LET f == stack[i]
            k == FailingStage(Parsers(f), f.raw)
        IN /\ k # 0 /\ k < Len(Parsers(f)) /\ f.pc = "done"
           /\ Validators(f) # <<>>
           /\ subscriptions[f.cell] # <<>>

Accepted(f) == PassesParsing(f) /\ \A j \in DOMAIN Validators(f) : Outcome(f, j).k = "true"

\* C3, as claimed: after a write of a raw input that every parse stage and every
\* validation stage accepts, a read returns the fully parsed value, whatever the
\* subscribed observers are.
C3_ReadReturnsParsed ==
    \A i \in Writes :
        LET f == stack[i]
        IN Finished(f) /\ Accepted(f)
           => ReadFrame(f.cell).ret = FullyParsed(Parsers(f), f.raw)

\* C3, amended: ... provided no observer executed by the write has itself
\* written to the signal.
C3_ReadReturnsParsedUnlessRewritten ==
    \A i \in Writes :
        LET f == stack[i]
        IN Finished(f) /\ Accepted(f) /\ ~f.nested
           => /\ f.committed
              /\ ReadFrame(f.cell).ret = FullyParsed(Parsers(f), f.raw)

C3_Witness ==
    \E i \in Writes :
        LET f == stack[i]
        IN /\ f.pc = "done" /\ Accepted(f) /\ ~f.nested
           /\ Len(Parsers(f)) > 1
           /\ FullyParsed(Parsers(f), f.raw) # f.raw
           /\ f.executed # <<>>

Executing == {i \in DOMAIN stack : stack[i].op = "execute"}

\* C4: when an execution of an effect has finished, by a return or by an
\* exception, the context array is what it was before the execution; it is empty
\* whenever no effect is running.
C4_ContextRestored ==
    /\ \A i \in Executing :
          Finished(stack[i]) => context[observers[stack[i].obs].cell] = stack[i].ctx0
    /\ Executing = {} => \A c \in Signals : context[c] = <<>>

\* C5: a read made while no effect is executing leaves the observers of the
\* signal as they were.
C5_ReadOutsideEffectKeepsObservers ==
    \A i \in DOMAIN stack :
        stack[i].op = "read" /\ Executing = {}
        => subscriptions[stack[i].cell] = stack[i].subs0

\* The elements of S that are in T, in the order of S.
Common(S, T) == SelectSeq(S, LAMBDA x : Has(T, x))

\* A finished write that committed has executed the observers subscribed when it
\* was called in their order in the Set, each once.
C6_State ==
    \A i \in Writes :
        LET f == stack[i]
        IN /\ Common(f.executed, f.subs0) = SubSeq(f.subs0, 1, Len(Common(f.executed, f.subs0)))
           /\ f.pc = "done" /\ f.committed => Common(f.executed, f.subs0) = f.subs0

\* No step changes the order of the observers that stay in a Set, and an observer
\* that enters a Set comes after those already there.
C6_Step ==
    \A c \in Signals :
        LET old == subscriptions[c]
            new == subscriptions'[c]
        IN /\ Common(new, old) = Common(old, new)
           /\ \A i, j \in DOMAIN new : i < j /\ Has(old, new[j]) => Has(old, new[i])

\* C6: a successful write executes the subscribed observers O1, O2, O3 in the
\* order of their first registration, before it returns, and a run that
\* registers an observer again does not change that order.
C6_NotifiesInRegistrationOrder == []C6_State /\ [][C6_Step]_vars

C6_Witness ==
    \E i \in Writes :
        LET f == stack[i]
        IN /\ f.pc = "done" /\ f.committed /\ Len(f.executed) = 3
           /\ f.executed = f.subs0
           /\ observers[f.executed[1]].kind = "effect"
           /\ observers[f.executed[2]].kind = "sub"
           /\ observers[f.executed[3]].kind = "effect"

\* An exception thrown by the fan-out of write f has left: the value is committed,
\* the observers up to the one that threw have been executed, the later ones not.
C7_State ==
    \A i \in Writes :
        LET f == stack[i]
        IN f.pc = "threw" /\ f.committed
           => /\ f.executed # <<>>
              /\ f.executed = SubSeq(subscriptions[f.cell], 1, Len(f.executed))
              /\ f.nested \/ value[f.cell] = FullyParsed(Parsers(f), f.raw)

\* What an observer throws leaves the write that executed it, and what a write
\* throws reaches its caller, with nothing else done.
C7_Step ==
    stack # <<>> /\ Top.pc = "threw" /\ Len(stack) > 1
    /\ "write" \in {Top.op, stack[Len(stack) - 1].op}
    => /\ stack' = [Front(stack) EXCEPT ![Len(stack) - 1].pc = "threw"]
       /\ UNCHANGED <<value, subscriptions>>

\* C7: when an observer throws during the fan-out of a write, the value has been
\* committed, the observers registered before it have been executed, those
\* registered after it are not, and the exception reaches the caller of write.
C7_ObserverFailureEscapes == []C7_State /\ [][C7_Step]_vars

C7_Witness ==
    \E i \in Writes :
        LET f == stack[i]
        IN /\ f.pc = "threw" /\ f.committed
           /\ Len(f.executed) > 1
           /\ Len(f.executed) < Len(subscriptions[f.cell])
           /\ value[f.cell] # f.old

\* C8: no failure of a parse stage or of a validation stage, thrown or returned,
\* leaves write as an exception: write returns, and the value and the observers
\* are as before the call.
C8_StageFailureNeverEscapes ==
    \A i \in Writes :
        LET f == stack[i]
        IN (~PassesParsing(f) \/ Rejecting(f) # {} \/ Throwing(f) # {})
           /\ f.pc \notin {"parse", "validate"}
           => /\ f.pc = "done"
              /\ value[f.cell] = f.old
              /\ subscriptions[f.cell] = f.subs0

\* The messages of the stages that reject, in pipeline order.
RejectionMessages(f) ==
    LET rejecting == SelectSeq([j \in DOMAIN Validators(f) |-> j],
                               LAMBDA j : j \in Rejecting(f))
    IN [n \in DOMAIN rejecting |-> Outcome(f, rejecting[n]).msg]

Reads(fn) == {Body(fn)[k].cell : k \in {k \in DOMAIN Body(fn) : Body(fn)[k].op = "read"}}

\* C10, as claimed: a read made while an effect is executing subscribes that
\* effect to the signal read, so an effect created on A that reads B is among
\* the observers of B after its run.
C10_EffectSubscribedWhereItReads ==
    \A i \in Executing :
        stack[i].pc = "done"
        => \A c \in Reads(observers[stack[i].obs].fn) :
              Has(subscriptions[c], stack[i].obs)

\* C10, amended: a read registers the top of the context array of the signal that
\* is read, if any.  An effect created on A that reads A is among the observers
\* of A after its run, and a successful write to A executes it; a read of B from
\* its body does not subscribe it to B: the observers of a signal are observers
\* created on that signal.
C10_ReadRegistersOwnContextTop ==
    /\ \A i \in Executing :
          stack[i].pc = "done"
          => \A c \in Reads(observers[stack[i].obs].fn) :
                c = observers[stack[i].obs].cell => Has(subscriptions[c], stack[i].obs)
    /\ \A c \in Signals : \A k \in DOMAIN subscriptions[c] :
          observers[subscriptions[c][k]].cell = c
    /\ stack # <<>> /\ Top.op = "read"
       => subscriptions[Top.cell] =
             IF context[Top.cell] = <<>> THEN Top.subs0
             ELSE Top.subs0 \o (IF Has(Top.subs0, Last(context[Top.cell])) THEN <<>>
                                ELSE <<Last(context[Top.cell])>>)
    /\ \A i \in Writes :
          stack[i].pc = "done" /\ stack[i].committed
          => \A k \in DOMAIN stack[i].subs0 : Has(stack[i].executed, stack[i].subs0[k])

C10_Witness ==
    \E i \in Executing :
        LET o == stack[i].obs
        IN /\ stack[i].pc = "done"
           /\ observers[o].cell = "A"
           /\ "B" \in Reads(observers[o].fn)
           /\ ~Has(subscriptions["B"], o)
           /\ subscriptions["B"] # <<>>
           /\ value["B"] # signals["B"].initialValue

(***************************************************************************)
(* The observers of a signal over time.                                    *)
(***************************************************************************)
\* A write that has committed and returned normally has executed every effect
\* that was subscribed when it was called, and the effect is still subscribed.
C11_State ==
    \A i \in Writes :
        LET f == stack[i]
        IN f.pc = "done" /\ f.committed
           => \A k \in DOMAIN f.subs0 :
                 observers[f.subs0[k]].kind = "effect"
                 => /\ Has(f.executed, f.subs0[k])
                    /\ Has(subscriptions[f.cell], f.subs0[k])

\* An observer leaves a Set only by a call of the function subscribe returned for
\* it; an effect has none.
C11_Step ==
    \A c \in Signals : \A k \in DOMAIN subscriptions[c] :
        LET o == subscriptions[c][k]
        IN \/ Has(subscriptions'[c], o)
           \/ /\ observers[o].kind = "sub"
              /\ stack = <<>> /\ stack' = <<>>
              /\ subscriptions' = [subscriptions EXCEPT ![c] = SetDelete(@, o)]

\* C11: an effect that is among the observers of a signal stays there in every
\* later state, also after runs in which its function has not read the signal,
\* and every later write that commits and returns executes it; only the
\* function returned by subscribe removes an observer.
C11_SubscriptionsAccumulate == []C11_State /\ [][C11_Step]_vars

\* A write has executed, for the third run of its function, an effect that read
\* the signal on its first run only.
C11_Witness ==
    \E i \in Writes :
        LET f == stack[i]
        IN /\ f.pc = "done" /\ f.committed
           /\ \E k \in DOMAIN f.executed :
                 /\ observers[f.executed[k]].fn = "readAfirst"
                 /\ f.runs0["readAfirst"] = 2
                 /\ counter["readAfirst"] = 3
                 /\ Has(subscriptions[f.cell], f.executed[k])

(***************************************************************************)
(* The runs of the observers' functions, as their counters tell them.      *)
(***************************************************************************)
\* The entries of the Set S whose function is fn.
Entries(S, fn) == {k \in DOMAIN S : observers[S[k]].fn = fn}

\* The write f assigns the value the signal already has.
SameValue(f) == Accepted(f) /\ FullyParsed(Parsers(f), f.raw) = f.old

\* C12: a write whose parsed value is the value the signal has commits like any
\* other, and when it returns it has executed every subscribed observer once:
\* the counter of a function has grown by one for each entry that runs it.
C12_NoEqualityShortCircuit ==
    \A i \in Writes :
        LET f == stack[i]
        IN SameValue(f)
           => /\ f.pc \notin {"parse", "validate", "commit"}
                 => f.committed /\ value[f.cell] = f.old
              /\ f.pc = "done"
                 => /\ f.executed = f.subs0
                    /\ \A fn \in Counting :
                          counter[fn] = f.runs0[fn] + Cardinality(Entries(f.subs0, fn))

\* The second write of " 7 " to a signal that parses it to 7 runs, for the third
\* time, the effect that reads the signal.
C12_Witness ==
    \E i \in Writes :
        LET f == stack[i]
        IN /\ SameValue(f) /\ f.pc = "done"
           /\ f.raw # f.old
           /\ Entries(f.subs0, "readAcount") # {}
           /\ f.runs0["readAcount"] = 2
           /\ counter["readAcount"] = 3

Creating == {i \in DOMAIN stack : stack[i].op = "createEffect"}

\* While createEffect runs, its function has been invoked at most once, and once
\* when createEffect is about to return; the function of an effect runs with the
\* effect on top of the context array, so that an effect whose function reads the
\* signal is subscribed when createEffect returns.  A write that returns after
\* its commit has added one run for each entry of the function, and a write
\* without a commit none.
C13_State ==
    /\ \A i \in Creating :
          LET o == stack[i].obs
              fn == observers[o].fn
          IN fn \in Counting
             => /\ counter[fn] \in {stack[i].runs0[fn], stack[i].runs0[fn] + 1}
                /\ i = Len(stack)
                   => /\ stack[i].pc = "done"
                      /\ counter[fn] = stack[i].runs0[fn] + 1
                      /\ fn = "readAcount" => Has(subscriptions[observers[o].cell], o)
    /\ \A j \in DOMAIN stack :
          stack[j].op = "fn" /\ observers[stack[j].obs].kind = "effect"
          => /\ context[observers[stack[j].obs].cell] # <<>>
             /\ Last(context[observers[stack[j].obs].cell]) = stack[j].obs
    /\ \A i \in Writes :
          LET f == stack[i]
          IN /\ f.pc = "done" /\ f.committed
                => counter["readAcount"] =
                      f.runs0["readAcount"] + Cardinality(Entries(f.subs0, "readAcount"))
             /\ ~f.committed => counter["readAcount"] = f.runs0["readAcount"]

\* The counters change only while a call of createEffect or of write is running.
C13_Step == counter' # counter => stack # <<>> /\ stack[1].op \in {"createEffect", "write"}

\* C13: createEffect(fn) invokes fn once, before it returns, with the new effect
\* on top of the context array; the effect that reads the signal then runs once
\* more in every write that commits and returns, and at no other time.
C13_CreateEffectRunsOnce == []C13_State /\ [][C13_Step]_vars

\* createEffect returns for a second effect with the function that reads and
\* counts: the first was created and run again by a write before.
C13_Witness ==
    /\ stack # <<>> /\ Top.op = "createEffect" /\ Top.pc = "done"
    /\ observers[Top.obs].fn = "readAcount"
    /\ Top.runs0["readAcount"] = 2
    /\ counter["readAcount"] = 3
    /\ Len(subscriptions[observers[Top.obs].cell]) = 2

\* A write that commits and returns has invoked a subscribed function once for
\* each of its entries, one that commits and throws at most once for each, and
\* one that does not commit has not invoked it.
C14_State ==
    \A i \in Writes :
        LET f == stack[i]
        IN \A fn \in CountingSubscribers :
              /\ ~f.committed => counter[fn] = f.runs0[fn]
              /\ counter[fn] <= f.runs0[fn] + Cardinality(Entries(f.subs0, fn))
              /\ f.pc = "done" /\ f.committed
                 => counter[fn] = f.runs0[fn] + Cardinality(Entries(f.subs0, fn))

\* The step that registers a subscription runs nothing, and the step that counts
\* a run of a subscribed function is made by the function called from the
\* fan-out of a write that has committed, for an observer that is subscribed.
C14_Step ==
    /\ Len(observers') > Len(observers) /\ Last(observers').kind = "sub"
       => counter' = counter /\ stack' = <<>>
    /\ \A fn \in CountingSubscribers :
          counter'[fn] # counter[fn]
          => /\ counter'[fn] = counter[fn] + 1
             /\ Len(stack) > 1 /\ Top.op = "fn" /\ observers[Top.obs].fn = fn
             /\ LET f == stack[Len(stack) - 1]
                IN /\ f.op = "write" /\ f.committed /\ f.pc = "notify"
                   /\ Last(f.executed) = Top.obs
                   /\ Has(subscriptions[f.cell], Top.obs)

\* C14: subscribe(fn) does not invoke fn; fn is invoked only from the fan-out of
\* a write that has committed, while its observer is subscribed, once in each
\* such write that returns, and never by a write that is rejected.
C14_SubscribeRunsOnWritesOnly == []C14_State /\ [][C14_Step]_vars

\* A rejected write returns: the subscribed function, which a write before has
\* invoked once, has not been invoked again.
C14_Witness ==
    \E i \in Writes :
        LET f == stack[i]
        IN /\ f.pc = "done" /\ ~f.committed
           /\ PassesParsing(f) /\ Rejecting(f) # {}
           /\ Entries(subscriptions[f.cell], "count") # {}
           /\ f.runs0["count"] = 1
           /\ counter["count"] = 1

\* A write executes only observers that were subscribed when it was called.
C15_State ==
    \A i \in Writes :
        \A k \in DOMAIN stack[i].executed : Has(stack[i].subs0, stack[i].executed[k])

\* A call of the function subscribe returned for o returns without an exception,
\* leaves o out of the Set and every other observer in it, and changes nothing
\* when o is not in the Set; an observer whose subscription has been removed
\* stays out of the Set, and no step calls its function.
C15_Step ==
    /\ \A o \in DOMAIN observers :
          CallUnsubscribe(o)
          => LET c == observers[o].cell
             IN /\ stack' = <<>>
                /\ ~Has(subscriptions'[c], o)
                /\ SelectSeq(subscriptions[c], LAMBDA x : x # o) = subscriptions'[c]
                /\ ~Has(subscriptions[c], o) => subscriptions' = subscriptions
    /\ \A o \in DOMAIN observers :
          observers[o].kind = "sub" /\ ~Has(subscriptions[observers[o].cell], o)
          => /\ ~Has(subscriptions'[observers[o].cell], o)
             /\ ~(/\ Len(stack') = Len(stack) + 1
                  /\ Last(stack').op = "fn" /\ Last(stack').obs = o)

\* C15: once the function subscribe returned has been called, no later write
\* invokes the subscribed function; a second call raises no error and leaves the
\* observers as the first call left them.
C15_UnsubscribeIsFinal == []C15_State /\ [][C15_Step]_vars

\* A write returns that has executed another observer and not the unsubscribed
\* one, whose function an earlier write had invoked.
C15_Witness ==
    \E i \in Writes : \E o \in DOMAIN observers :
        LET f == stack[i]
        IN /\ f.pc = "done" /\ f.committed /\ f.executed # <<>>
           /\ observers[o].kind = "sub" /\ observers[o].fn = "count"
           /\ ~Has(subscriptions[f.cell], o)
           /\ Entries(f.executed, "count") = {}
           /\ f.runs0["count"] = 1
           /\ counter["count"] = 1

\* The observers of the Set S other than o that run the function of o.
Twins(S, o) == {k \in DOMAIN S : S[k] # o /\ observers[S[k]].fn = observers[o].fn}

\* A write that commits and returns has executed both entries of a function
\* that is registered twice, and the function's counter has grown by two; an
\* effect whose function reads the signal has its entry when createEffect
\* returns, whether or not the function has an entry already.
C16_State ==
    /\ \A i \in Writes :
          LET f == stack[i]
          IN f.pc = "done" /\ f.committed
             => \A k \in DOMAIN f.subs0 :
                   LET o == f.subs0[k]
                   IN /\ Cardinality({j \in DOMAIN f.executed : f.executed[j] = o}) = 1
                      /\ observers[o].fn \in Counting
                         => counter[observers[o].fn] =
                               f.runs0[observers[o].fn] + 1 + Cardinality(Twins(f.subs0, o))
    /\ \A i \in Creating :
          LET o == stack[i].obs
          IN i = Len(stack) /\ observers[o].fn \in {"readAcount", "readAtwice"}
             => Has(subscriptions[observers[o].cell], o)

\* A subscribe adds an entry whether or not its function has one already, and
\* the removal of one entry leaves the other entries of its function.
C16_Step ==
    /\ Len(observers') > Len(observers) /\ Last(observers').kind = "sub"
       => LET c == Last(observers').cell
          IN subscriptions'[c] = Append(subscriptions[c], Len(observers'))
    /\ \A o \in DOMAIN observers :
          CallUnsubscribe(o)
          => LET c == observers[o].cell
             IN \A k \in Twins(subscriptions[c], o) :
                   Has(subscriptions'[c], subscriptions[c][k])

\* C16: an observer is not its function: the same function registered twice has
\* two entries, a write that commits and returns invokes it once for each, and
\* the removal of one entry leaves the other subscribed and notified.
C16_ObserverIdentity == []C16_State /\ [][C16_Step]_vars

\* Of two subscriptions of the same function one has been removed after a write
\* that invoked the function twice; a later write has invoked it once more.
C16_Witness ==
    \E i \in Writes :
        LET f == stack[i]
        IN /\ f.pc = "done" /\ f.committed
           /\ Len(observers) = 2
           /\ observers[1] = observers[2] /\ observers[1].fn = "count"
           /\ Len(f.subs0) = 1
           /\ f.runs0["count"] = 2
           /\ counter["count"] = 3

\* A read returns the value of the signal; it leaves the Set as it was when the
\* observer it registers is there already, and no Set holds an observer twice.
C17_State ==
    /\ \A c \in Signals : \A i, j \in DOMAIN subscriptions[c] :
          subscriptions[c][i] = subscriptions[c][j] => i = j
    /\ stack # <<>> /\ Top.op = "read"
       => /\ Top.ret = value[Top.cell]
          /\ ReadObserver(Top.cell) = 0 \/ Has(Top.subs0, ReadObserver(Top.cell))
             => subscriptions[Top.cell] = Top.subs0
          /\ Len(subscriptions[Top.cell]) <= Len(Top.subs0) + 1
    /\ \A j \in DOMAIN stack :
          /\ stack[j].op = "fn" /\ observers[stack[j].obs].fn = "readAtwice"
          /\ stack[j].ip = 3 /\ j < Len(stack)
          => /\ Has(stack[j + 1].subs0, stack[j].obs)
             /\ subscriptions[stack[j + 1].cell] = stack[j + 1].subs0

\* A call of read changes no value: only the assignment of a write does, so the
\* reads between two writes return the same value.
C17_Step ==
    /\ Len(stack') = Len(stack) + 1 /\ Last(stack').op = "read" => value' = value
    /\ value' # value => stack # <<>> /\ Top.op = "write" /\ Top.pc = "commit"

\* C17: reads with no write in between return the same value, and the reads of
\* one running observer register it once: the Set never holds an observer twice.
C17_ReadIsIdempotent == []C17_State /\ [][C17_Step]_vars

\* The second read of an effect that reads twice, run again by a write, with
\* another observer in the Set.
C17_Witness ==
    /\ Len(stack) > 3 /\ Top.op = "read"
    /\ stack[1].op = "write"
    /\ stack[Len(stack) - 1].op = "fn" /\ stack[Len(stack) - 1].ip = 3
    /\ observers[stack[Len(stack) - 1].obs].fn = "readAtwice"
    /\ Len(subscriptions[Top.cell]) = 2
    /\ Top.ret # signals[Top.cell].initialValue

(***************************************************************************)
(* AOPToolkit (src/AOP/AOPToolkit.js).  A function is a base function, or  *)
(* the closure one of the toolkit's methods returns for a target function  *)
(* and an advice: it is kept as the base function with the layers of       *)
(* advice put around it, the outermost last.  A call of a function is a    *)
(* frame of the stack; calls records the calls the frame has made, with    *)
(* their arguments and outcomes.                                           *)
(***************************************************************************)
Undefined == [t |-> "undefined", n |-> 0, s |-> <<>>]
\* new Error(m), made by the call at the given place of the stack.
Err(m, site) == [t |-> "error", n |-> site, s |-> <<m>>]

Fn(name) == [target |-> name, layers |-> <<>>]
Advise(kind, targetFunction, advice) ==
    [targetFunction EXCEPT !.layers = Append(@, [kind |-> kind, advice |-> advice])]

before(targetFunction, advice) == Advise("before", targetFunction, advice)
afterReturning(targetFunction, advice) == Advise("afterReturning", targetFunction, advice)
afterThrowing(targetFunction, advice) == Advise("afterThrowing", targetFunction, advice)

\* The functions the callers wrap and use as advice: two parsers, and the demo's
\* handleError, which logs error.message and returns undefined.
BaseFns == {"trimParser", "positiveIntegerParser", "handleError"}

\* The functions made of a base function by at most n applications of the toolkit.
RECURSIVE Advised(_)
Advised(n) ==
    IF n = 0 THEN {Fn(b) : b \in BaseFns}
    ELSE LET F == Advised(n - 1)
         IN F \cup {before(f, a) : f \in F, a \in BaseFns}
              \cup {afterReturning(f, a) : f \in F, a \in BaseFns}
              \cup {afterThrowing(f, a) : f \in F, a \in BaseFns}

\* The argument lists of the callers.
ArgLists == {<<Str(<<" ", "7", " ">>)>>, <<Str(<<"x">>), Num(1)>>, <<Num(5)>>, <<>>}

CallFrame(f, args) ==
    [op |-> "call", fn |-> f, args |-> args, pc |-> "start", calls |-> <<>>,
     ret |-> Undefined, err |-> Undefined]

\* The method that made the function of frame fr, its advice and its target.
Kind(fr) == IF fr.fn.layers = <<>> THEN "base" ELSE Last(fr.fn.layers).kind
AdviceOf(fr) == Fn(Last(fr.fn.layers).advice)
TargetOf(fr) == [fr.fn EXCEPT !.layers = Front(@)]

Caller == stack[Len(stack) - 1]
\* The frame on top is at pc `at` and its function was made by `kind`.
At(kind, at) == stack # <<>> /\ Top.op = "call" /\ Kind(Top) = kind /\ Top.pc = at
\* The call on top has ended as `how`, and its caller, made by `kind`, is at `at`.
Ended(kind, at, how) ==
    /\ Len(stack) > 1 /\ Top.op = "call" /\ Top.pc = how
    /\ Caller.op = "call" /\ Kind(Caller) = kind /\ Caller.pc = at
\* The caller's record of the call that has ended.
Logged ==
    Append(Caller.calls, [who |-> Caller.pc, args |-> Top.args, pc |-> Top.pc,
                          ret |-> Top.ret, err |-> Top.err])
\* The ended call leaves the stack, its caller goes on as `caller` and calls `next`.
Resume(caller, next) == stack' = SubSeq(stack, 1, Len(stack) - 2) \o <<caller>> \o next
\* The frame on top calls f with args and waits at pc `at`.
Invoke(at, f, args) == stack' = Append(SetTop([Top EXCEPT !.pc = at]), CallFrame(f, args))

\* What a base function does with its arguments: it looks at the first one.
BaseResult(name, args) ==
    IF name = "handleError" THEN Returned(Undefined)
    ELSE Parse(name, IF args = <<>> THEN Undefined ELSE args[1])

BaseCall ==
    /\ At("base", "start")
    /\ LET r == BaseResult(Top.fn.target, Top.args)
           site == 10 * Len(stack) + (IF Len(stack) > 1 THEN Len(Caller.calls) ELSE 0)
       IN stack' = SetTop(IF r.ok THEN [Top EXCEPT !.pc = "done", !.ret = r.v]
                          ELSE [Top EXCEPT !.pc = "threw", !.err = Err(r.msg, site)])
    /\ UNCHANGED <<signals, counter, value, subscriptions, context, observers>>

\* before, line 23: advice.apply(this, args)
BeforeAdvice ==
    /\ At("before", "start")
    /\ Invoke("advice", AdviceOf(Top), Top.args)
    /\ UNCHANGED <<signals, counter, value, subscriptions, context, observers>>

\* before, line 24: targetFunction.apply(this, args)
BeforeTarget ==
    /\ Ended("before", "advice", "done")
    /\ Resume([Caller EXCEPT !.calls = Logged, !.pc = "target"],
              <<CallFrame(TargetOf(Caller), Caller.args)>>)
    /\ UNCHANGED <<signals, counter, value, subscriptions, context, observers>>

\* A before whose function returns what the advice returned.
BeforeReturnAdvice ==
    /\ Ended("before", "target", "done")
    /\ Resume([Caller EXCEPT !.calls = Logged, !.pc = "done",
                             !.ret = Caller.calls[1].ret], <<>>)
    /\ UNCHANGED <<signals, counter, value, subscriptions, context, observers>>

\* before, line 24: return
BeforeReturn ==
    /\ Ended("before", "target", "done")
    /\ Resume([Caller EXCEPT !.calls = Logged, !.pc = "done", !.ret = Top.ret], <<>>)
    /\ UNCHANGED <<signals, counter, value, subscriptions, context, observers>>

\* afterReturning, line 66: const result = targetFunction.apply(this, args)
AfterReturningTarget ==
    /\ At("afterReturning", "start")
    /\ Invoke("target", TargetOf(Top), Top.args)
    /\ UNCHANGED <<signals, counter, value, subscriptions, context, observers>>

\* An afterReturning that hands the advice the arguments without the result.
AfterReturningAdviceArgsOnly ==
    /\ Ended("afterReturning", "target", "done")
    /\ Resume([Caller EXCEPT !.calls = Logged, !.pc = "advice", !.ret = Top.ret],
              <<CallFrame(AdviceOf(Caller), Caller.args)>>)
    /\ UNCHANGED <<signals, counter, value, subscriptions, context, observers>>

\* afterReturning, line 67: advice.apply(this, [result, ...args])
AfterReturningAdvice ==
    /\ Ended("afterReturning", "target", "done")
    /\ Resume([Caller EXCEPT !.calls = Logged, !.pc = "advice", !.ret = Top.ret],
              <<CallFrame(AdviceOf(Caller), <<Top.ret>> \o Caller.args)>>)
    /\ UNCHANGED <<signals, counter, value, subscriptions, context, observers>>

\* afterReturning, line 68: return result
AfterReturningReturn ==
    /\ Ended("afterReturning", "advice", "done")
    /\ Resume([Caller EXCEPT !.calls = Logged, !.pc = "done"], <<>>)
    /\ UNCHANGED <<signals, counter, value, subscriptions, context, observers>>

\* afterThrowing, lines 81-82: try { return targetFunction.apply(this, args)
AfterThrowingTry ==
    /\ At("afterThrowing", "start")
    /\ Invoke("target", TargetOf(Top), Top.args)
    /\ UNCHANGED <<signals, counter, value, subscriptions, context, observers>>

\* afterThrowing, line 82: the target has returned.
AfterThrowingReturn ==
    /\ Ended("afterThrowing", "target", "done")
    /\ Resume([Caller EXCEPT !.calls = Logged, !.pc = "done", !.ret = Top.ret], <<>>)
    /\ UNCHANGED <<signals, counter, value, subscriptions, context, observers>>

\* afterThrowing, lines 83-84: catch (error) { advice.apply(this, [error, ...args])
AfterThrowingCatch ==
    /\ Ended("afterThrowing", "target", "threw")
    /\ Resume([Caller EXCEPT !.calls = Logged, !.pc = "advice", !.err = Top.err],
              <<CallFrame(AdviceOf(Caller), <<Top.err>> \o Caller.args)>>)
    /\ UNCHANGED <<signals, counter, value, subscriptions, context, observers>>

\* An afterThrowing that returns when its advice has handled the error.
AfterThrowingSwallow ==
    /\ Ended("afterThrowing", "advice", "done")
    /\ Resume([Caller EXCEPT !.calls = Logged, !.pc = "done", !.err = Undefined], <<>>)
    /\ UNCHANGED <<signals, counter, value, subscriptions, context, observers>>

\* afterThrowing, line 85: throw error
AfterThrowingRethrow ==
    /\ Ended("afterThrowing", "advice", "done")
    /\ Resume([Caller EXCEPT !.calls = Logged, !.pc = "threw"], <<>>)
    /\ UNCHANGED <<signals, counter, value, subscriptions, context, observers>>

\* A call made outside a try block has thrown: the exception ends the caller.
Uncaught ==
    /\ \/ Ended("before", "advice", "threw")
       \/ Ended("before", "target", "threw")
       \/ Ended("afterReturning", "target", "threw")
       \/ Ended("afterReturning", "advice", "threw")
       \/ Ended("afterThrowing", "advice", "threw")
    /\ Resume([Caller EXCEPT !.calls = Logged, !.pc = "threw", !.err = Top.err], <<>>)
    /\ UNCHANGED <<signals, counter, value, subscriptions, context, observers>>

\* Functions are wrapped at most this many times.
MaxWrap == 2

\* A caller calls a function the toolkit has made.
CallAdvised(f, args) ==
    /\ stack = <<>>
    /\ stack' = <<CallFrame(f, args)>>
    /\ UNCHANGED <<signals, counter, value, subscriptions, context, observers>>

\* The toolkit alone: no signal is constructed.
InitAOP == Construct([c \in {} |-> PlainSignal])

NextAOP ==
    \/ stack = <<>> /\ \E f \in Advised(MaxWrap) : \E args \in ArgLists : CallAdvised(f, args)
    \/ BaseCall
    \/ BeforeAdvice
    \/ BeforeTarget
    \/ BeforeReturn
    \/ AfterReturningTarget
    \/ AfterReturningAdvice
    \/ AfterReturningReturn
    \/ AfterThrowingTry
    \/ AfterThrowingReturn
    \/ AfterThrowingCatch
    \/ AfterThrowingRethrow
    \/ Uncaught
    \/ Len(stack) = 1 /\ Return
    \/ Len(stack) = 1 /\ Propagate

SpecAOP == InitAOP /\ [][NextAOP]_vars

(***************************************************************************)
(* The calls a function made by the toolkit makes, and how it ends.        *)
(***************************************************************************)
Calls(kind) == {i \in DOMAIN stack : stack[i].op = "call" /\ Kind(stack[i]) = kind}

C19_RethrowsTargetError ==
    \A i \in Calls("afterThrowing") :
        LET f == stack[i]
        IN Finished(f)
           => /\ Len(f.calls) >= 1
              /\ f.calls[1].who = "target" /\ f.calls[1].args = f.args
              /\ f.calls[1].pc = "done"
                 => Len(f.calls) = 1 /\ f.pc = "done" /\ f.ret = f.calls[1].ret
              /\ f.calls[1].pc = "threw"
                 => /\ Len(f.calls) = 2
                    /\ f.calls[2].who = "advice"
                    /\ f.calls[2].args = <<f.calls[1].err>> \o f.args
                    /\ f.pc = "threw" /\ f.err = f.calls[1].err

\* C19, amended: ... and then, when the advice has returned, throws that error to
\* its caller; when the advice throws, it is the exception of the advice that
\* reaches the caller.
C19_RethrowsUnlessAdviceThrows ==
    \A i \in Calls("afterThrowing") :
        LET f == stack[i]
        IN /\ f.pc = "target"
              => /\ f.calls = <<>>
                 /\ stack[i + 1].fn = TargetOf(f) /\ stack[i + 1].args = f.args
           /\ f.pc = "advice"
              => /\ Len(f.calls) = 1 /\ f.calls[1].pc = "threw"
                 /\ stack[i + 1].fn = AdviceOf(f)
                 /\ stack[i + 1].args = <<f.calls[1].err>> \o f.args
           /\ Finished(f)
              => /\ Len(f.calls) >= 1
                 /\ f.calls[1].who = "target" /\ f.calls[1].args = f.args
                 /\ f.calls[1].pc = "done"
                    => Len(f.calls) = 1 /\ f.pc = "done" /\ f.ret = f.calls[1].ret
                 /\ f.calls[1].pc = "threw"
                    => /\ Len(f.calls) = 2
                       /\ f.calls[2].who = "advice"
                       /\ f.calls[2].args = <<f.calls[1].err>> \o f.args
                       /\ f.pc = "threw"
                       /\ f.err = IF f.calls[2].pc = "done" THEN f.calls[1].err
                                  ELSE f.calls[2].err

\* afterThrowing(f, handleError)(...) throws the error f threw, f being itself a
\* function of the toolkit, called with arguments.
C19_Witness ==
    \E i \in Calls("afterThrowing") :
        LET f == stack[i]
        IN /\ f.pc = "threw" /\ Len(f.calls) = 2
           /\ f.args # <<>>
           /\ Len(f.fn.layers) > 1
           /\ f.calls[2].pc = "done"
           /\ f.err = f.calls[1].err /\ f.err.t = "error"

\* C20, as claimed: the function afterReturning(target, advice) returns calls the
\* advice only when the target has returned, after it, with the target's result
\* and then the arguments of the call, and returns the target's result; when the
\* target throws, the advice is not called.
C20_ReturnsTargetResult ==
    \A i \in Calls("afterReturning") :
        LET f == stack[i]
        IN Finished(f)
           => /\ Len(f.calls) >= 1
              /\ f.calls[1].who = "target" /\ f.calls[1].args = f.args
              /\ f.calls[1].pc = "threw"
                 => Len(f.calls) = 1 /\ f.pc = "threw" /\ f.err = f.calls[1].err
              /\ f.calls[1].pc = "done"
                 => /\ Len(f.calls) = 2
                    /\ f.calls[2].who = "advice"
                    /\ f.calls[2].args = <<f.calls[1].ret>> \o f.args
                    /\ f.pc = "done" /\ f.ret = f.calls[1].ret

\* C20, amended: ... and, when the advice has returned, returns the target's
\* result; when the advice throws, its exception reaches the caller.
C20_ReturnsUnlessAdviceThrows ==
    \A i \in Calls("afterReturning") :
        LET f == stack[i]
        IN /\ f.pc = "target"
              => /\ f.calls = <<>>
                 /\ stack[i + 1].fn = TargetOf(f) /\ stack[i + 1].args = f.args
           /\ f.pc = "advice"
              => /\ Len(f.calls) = 1 /\ f.calls[1].pc = "done"
                 /\ stack[i + 1].fn = AdviceOf(f)
                 /\ stack[i + 1].args = <<f.calls[1].ret>> \o f.args
           /\ Finished(f)
              => /\ Len(f.calls) >= 1
                 /\ f.calls[1].who = "target" /\ f.calls[1].args = f.args
                 /\ f.calls[1].pc = "threw"
                    => Len(f.calls) = 1 /\ f.pc = "threw" /\ f.err = f.calls[1].err
                 /\ f.calls[1].pc = "done"
                    => /\ Len(f.calls) = 2
                       /\ f.calls[2].who = "advice"
                       /\ f.calls[2].args = <<f.calls[1].ret>> \o f.args
                       /\ f.pc = f.calls[2].pc
                       /\ f.pc = "done" => f.ret = f.calls[1].ret
                       /\ f.pc = "threw" => f.err = f.calls[2].err

\* afterReturning(trimParser, positiveIntegerParser)(" 7 ") has returned "7",
\* the result of the target; the advice, called with "7" and " 7 ", returned 7.
C20_Witness ==
    \E i \in Calls("afterReturning") :
        LET f == stack[i]
        IN /\ f.pc = "done" /\ Len(f.calls) = 2
           /\ f.args # <<>>
           /\ f.ret = f.calls[1].ret /\ f.ret # Undefined
           /\ f.calls[2].ret # Undefined
           /\ f.calls[2].ret # f.ret

(***************************************************************************)
(* AOPToolkit.after and AOPToolkit.around.  The function around returns    *)
(* hands its advice the target function and the array of the arguments;    *)
(* the advice is a base function, which looks at the function it is given  *)
(* as at any first argument, or a function of the callers that applies the *)
(* target to the array.                                                    *)
(***************************************************************************)
after(targetFunction, advice) == Advise("after", targetFunction, advice)
around(targetFunction, advice) == Advise("around", targetFunction, advice)

\* A function and an array, as the values of arguments.
Function(f) == [t |-> "function", n |-> 0, s |-> <<>>, f |-> f]
Array(a) == [t |-> "array", n |-> Len(a), s |-> <<>>, a |-> a]

\* The advice the callers write for around:
\*   timed: (targetFunction, args) => { startTimer();
\*            const result = targetFunction.apply(this, args); endTimer();
\*            return result }
\*   twice: (targetFunction, args) => { targetFunction.apply(this, args);
\*            return targetFunction.apply(this, args) }
\*   mute:  (targetFunction, args) => { targetFunction.apply(this, args) }
AroundAdvices == {"timed", "twice", "mute"}
\* The number of times the advice applies the target.
Times(advice) == IF advice = "twice" THEN 2 ELSE 1

\* The functions made of a base function by at most n applications of after and around.
RECURSIVE Wrapped(_)
Wrapped(n) ==
    IF n = 0 THEN {Fn(b) : b \in BaseFns}
    ELSE LET F == Wrapped(n - 1)
         IN F \cup {after(f, a) : f \in F, a \in BaseFns}
              \cup {around(f, a) : f \in F, a \in BaseFns \cup AroundAdvices}

\* after, line 37: const result = targetFunction.apply(this, args)
AfterTarget ==
    /\ At("after", "start")
    /\ Invoke("target", TargetOf(Top), Top.args)
    /\ UNCHANGED <<signals, counter, value, subscriptions, context, observers>>

\* after, line 38: advice.apply(this, args)
AfterAdvice ==
    /\ Ended("after", "target", "done")
    /\ Resume([Caller EXCEPT !.calls = Logged, !.pc = "advice", !.ret = Top.ret],
              <<CallFrame(AdviceOf(Caller), Caller.args)>>)
    /\ UNCHANGED <<signals, counter, value, subscriptions, context, observers>>

\* An after whose function returns what the advice returned.
AfterReturnAdvice ==
    /\ Ended("after", "advice", "done")
    /\ Resume([Caller EXCEPT !.calls = Logged, !.pc = "done", !.ret = Top.ret], <<>>)
    /\ UNCHANGED <<signals, counter, value, subscriptions, context, observers>>

\* after, line 39: return result
AfterReturn ==
    /\ Ended("after", "advice", "done")
    /\ Resume([Caller EXCEPT !.calls = Logged, !.pc = "done"], <<>>)
    /\ UNCHANGED <<signals, counter, value, subscriptions, context, observers>>

\* The frame of advice.call(this, targetFunction, args).
AdviceFrame(advice, targetFunction, args) ==
    [CallFrame(advice, <<Function(targetFunction), Array(args)>>)
        EXCEPT !.pc = IF advice.target \in BaseFns THEN "start" ELSE "body"]

\* around, line 52: advice.call(this, targetFunction, args)
AroundAdvice ==
    /\ At("around", "start")
    /\ stack' = Append(SetTop([Top EXCEPT !.pc = "advice"]),
                       AdviceFrame(AdviceOf(Top), TargetOf(Top), Top.args))
    /\ UNCHANGED <<signals, counter, value, subscriptions, context, observers>>

\* An around whose function, like the one of before, calls the target when the
\* advice has returned.
AroundReturnTarget ==
    /\ Ended("around", "advice", "done")
    /\ Resume([Caller EXCEPT !.calls = Logged, !.pc = "target"],
              <<CallFrame(TargetOf(Caller), Caller.args)>>)
    /\ UNCHANGED <<signals, counter, value, subscriptions, context, observers>>

\* around, line 52: return
AroundReturn ==
    /\ Ended("around", "advice", "done")
    /\ Resume([Caller EXCEPT !.calls = Logged, !.pc = "done", !.ret = Top.ret], <<>>)
    /\ UNCHANGED <<signals, counter, value, subscriptions, context, observers>>

\* The callers' advice: targetFunction.apply(this, args), the first time.
AdviceApply ==
    /\ At("base", "body")
    /\ Invoke("target", Top.args[1].f, Top.args[2].a)
    /\ UNCHANGED <<signals, counter, value, subscriptions, context, observers>>

\* twice: the second targetFunction.apply(this, args)
AdviceApplyAgain ==
    /\ Ended("base", "target", "done")
    /\ Len(Caller.calls) + 1 < Times(Caller.fn.target)
    /\ Resume([Caller EXCEPT !.calls = Logged],
              <<CallFrame(Caller.args[1].f, Caller.args[2].a)>>)
    /\ UNCHANGED <<signals, counter, value, subscriptions, context, observers>>

\* The callers' advice returns: the result of the target, or nothing (mute).
AdviceReturn ==
    /\ Ended("base", "target", "done")
    /\ Len(Caller.calls) + 1 = Times(Caller.fn.target)
    /\ Resume([Caller EXCEPT !.calls = Logged, !.pc = "done",
                             !.ret = IF Caller.fn.target = "mute" THEN Undefined
                                     ELSE Top.ret], <<>>)
    /\ UNCHANGED <<signals, counter, value, subscriptions, context, observers>>

\* Neither after nor around nor the callers' advice has a try block.
UncaughtWrap ==
    /\ \/ Ended("after", "target", "threw")
       \/ Ended("after", "advice", "threw")
       \/ Ended("around", "advice", "threw")
       \/ Ended("base", "target", "threw")
    /\ Resume([Caller EXCEPT !.calls = Logged, !.pc = "threw", !.err = Top.err], <<>>)
    /\ UNCHANGED <<signals, counter, value, subscriptions, context, observers>>

NextWrap ==
    \/ stack = <<>> /\ \E f \in Wrapped(MaxWrap) : \E args \in ArgLists : CallAdvised(f, args)
    \/ BaseCall
    \/ AfterTarget
    \/ AfterAdvice
    \/ AfterReturn
    \/ AroundAdvice
    \/ AroundReturn
    \/ AdviceApply
    \/ AdviceApplyAgain
    \/ AdviceReturn
    \/ UncaughtWrap
    \/ Len(stack) = 1 /\ Return
    \/ Len(stack) = 1 /\ Propagate

SpecWrap == InitAOP /\ [][NextWrap]_vars

\* C21: the function around(target, advice) returns never calls target itself:
\* the one call it makes is the call of advice, with the target function and the
\* array of the arguments; target runs in the calls advice makes of it, as many
\* times as advice makes them (never for an advice that is a base function, once
\* for timed and mute, twice for twice), with the arguments of the call; the
\* function ends as advice ends, with the result or the exception of advice.
C21_AroundLeavesTargetToAdvice ==
    \A i \in Calls("around") :
        LET f == stack[i]
            advice == AdviceOf(f)
        IN /\ f.pc \in {"start", "advice", "done", "threw"}
           /\ f.pc = "start" => f.calls = <<>>
           /\ f.pc = "advice"
              => /\ f.calls = <<>>
                 /\ stack[i + 1].fn = advice
                 /\ stack[i + 1].args = <<Function(TargetOf(f)), Array(f.args)>>
                 /\ Len(stack[i + 1].calls) <=
                       (IF advice.target \in BaseFns THEN 0 ELSE Times(advice.target))
                 /\ \A k \in DOMAIN stack[i + 1].calls :
                       /\ stack[i + 1].calls[k].who = "target"
                       /\ stack[i + 1].calls[k].args = f.args
                 /\ stack[i + 1].pc = "target"
                    => stack[i + 2].fn = TargetOf(f) /\ stack[i + 2].args = f.args
                 /\ stack[i + 1].pc = "done" /\ advice.target \in AroundAdvices
                    => Len(stack[i + 1].calls) = Times(advice.target)
           /\ Finished(f)
              => /\ Len(f.calls) = 1
                 /\ f.calls[1].who = "advice"
                 /\ f.pc = f.calls[1].pc
                 /\ f.pc = "done" => f.ret = f.calls[1].ret
                 /\ f.pc = "threw" => f.err = f.calls[1].err

\* around(trimParser, twice)(" 7 ") is about to return "7": the advice has
\* applied trimParser twice to " 7 " and returned the second result.
C21_Witness ==
    \E i \in Calls("around") :
        LET f == stack[i]
        IN /\ f.pc = "advice" /\ Len(stack) = i + 1
           /\ AdviceOf(f).target = "twice"
           /\ stack[i + 1].pc = "done"
           /\ Len(stack[i + 1].calls) = 2
           /\ stack[i + 1].ret = stack[i + 1].calls[2].ret
           /\ stack[i + 1].ret # Undefined
           /\ f.args # <<>>

FanEffects == {"readA", "outer"}
FanSubscribers == {"nop", "subNop", "subSelf", "drop1", "drop2"}
\* The functions that make an observer each time they run.
Spawning == {"subNop", "subSelf", "outer"}

\* The observers the functions of the subscribed observers would make in one
\* fan-out, were each run once.
Spawned(c) ==
    Cardinality({k \in DOMAIN subscriptions[c] :
                    observers[subscriptions[c][k]].fn \in Spawning})

\* The functions drop1 and drop2 have the function subscribe returned for the
\* observer they name.
DropsDefined ==
    \A o \in DOMAIN observers :
        Body(observers[o].fn) # <<>> /\ Body(observers[o].fn)[1].op = "unsubscribe"
        => /\ Body(observers[o].fn)[1].obs \in DOMAIN observers
           /\ observers[Body(observers[o].fn)[1].obs].kind = "sub"

InitFan == Construct([c \in {"A"} |-> PlainSignal])

NextFan ==
    \/ \E c \in Signals : \E raw \in RawInputs(c) :
          /\ DropsDefined /\ Len(observers) + Spawned(c) <= MaxFan
          /\ CallWrite(c, raw)
    \/ \E c \in Signals : \E fn \in FanEffects :
          /\ Len(observers) + (IF fn \in Spawning THEN 2 ELSE 1) <= MaxFan
          /\ CallCreateEffect(c, fn)
    \/ \E c \in Signals : \E fn \in FanSubscribers : CallSubscribe(c, fn)
    \/ WriteParse
    \/ WriteValidate
    \/ WriteCommit
    \/ WriteNotify
    \/ WriteNotifyEnd
    \/ EffectPush
    \/ EffectPop
    \/ FnRead
    \/ FnSubscribe
    \/ FnUnsubscribe
    \/ FnCreateEffect
    \/ FnReturn
    \/ Return

SpecFan == InitFan /\ [][NextFan]_vars

\* The number of times o is in S.
Count(S, o) == Cardinality({k \in DOMAIN S : S[k] = o})

\* C23, as claimed: a write that has committed and returned has executed every
\* observer that was subscribed when it committed exactly once and no other
\* observer, also when the functions of the observers subscribe and unsubscribe
\* during the fan-out.
C23_ExecutesCommitSnapshot ==
    \A i \in Writes :
        LET f == stack[i]
        IN f.pc = "done" /\ f.committed
           => \A o \in DOMAIN observers :
                 Count(f.executed, o) = (IF Has(f.subs0, o) THEN 1 ELSE 0)

\* The fan-out of a write executes no observer twice; the observers the loop has
\* passed have been executed; when the write has returned, every observer that
\* is subscribed, at commit or since, has been executed, and an observer
\* subscribed at commit that was not executed is a subscription that has been
\* removed.
C23_State ==
    \A i \in Writes :
        LET f == stack[i]
            S == subscriptions[f.cell]
        IN /\ \A o \in DOMAIN observers : Count(f.executed, o) <= 1
           /\ f.pc = "notify"
              => /\ f.idx <= Len(S) + 1
                 /\ \A k \in DOMAIN S : k < f.idx => Has(f.executed, S[k])
           /\ f.pc = "done" /\ f.committed
              => /\ \A k \in DOMAIN S : Has(f.executed, S[k])
                 /\ \A k \in DOMAIN f.subs0 :
                       ~Has(f.executed, f.subs0[k])
                       => observers[f.subs0[k]].kind = "sub" /\ ~Has(S, f.subs0[k])

\* The observer a write executes is subscribed at that moment: an observer
\* unsubscribed before its turn is not executed, one subscribed during the
\* fan-out is.
C23_Step ==
    \A i \in Writes :
        i \in DOMAIN stack' /\ stack'[i].op = "write"
        /\ stack'[i].executed # stack[i].executed
        => /\ Len(stack'[i].executed) = Len(stack[i].executed) + 1
           /\ Front(stack'[i].executed) = stack[i].executed
           /\ Has(subscriptions[stack[i].cell], Last(stack'[i].executed))

\* C23, amended: a successful write in which no observer throws or writes
\* executes, each exactly once, the observers that are subscribed when the
\* iteration reaches them: those subscribed at commit and not unsubscribed
\* before their turn, and those subscribed during the fan-out; an observer
\* unsubscribed before its turn is not executed.
C23_FansOutOverLiveSet == []C23_State /\ [][C23_Step]_vars

\* A write has returned that executed an observer subscribed during its fan-out
\* and did not execute an observer that was subscribed when it committed.
C23_Witness ==
    \E i \in Writes :
        LET f == stack[i]
        IN /\ f.pc = "done" /\ f.committed
           /\ \E k \in DOMAIN f.executed : ~Has(f.subs0, f.executed[k])
           /\ \E k \in DOMAIN f.subs0 : ~Has(f.executed, f.subs0[k])

\* C24: a read made by the function of an effect registers that effect and
\* nothing else: when the function of effect E1 creates effect E2 on the same
\* signal, a read made by the function of E2 registers E2 and not E1, and a read
\* E1's function makes when the creation of E2 has returned registers E1 and
\* not E2.
C24_ReadRegistersTopOnly ==
    stack # <<>> /\ Top.op = "read" /\ Len(stack) > 1
    /\ Caller.op = "fn" /\ observers[Caller.obs].kind = "effect"
    => /\ context[Top.cell] # <<>> /\ Last(context[Top.cell]) = Caller.obs
       /\ subscriptions[Top.cell] =
             IF Has(Top.subs0, Caller.obs) THEN Top.subs0
             ELSE Append(Top.subs0, Caller.obs)

\* The function of E1 has created E2, whose read registered E2, and now has read
\* the signal itself: E1 is registered, after E2.
C24_Witness ==
    /\ stack # <<>> /\ Top.op = "read" /\ Len(stack) > 1
    /\ Caller.op = "fn" /\ observers[Caller.obs].fn = "outer"
    /\ Len(observers) > Caller.obs
    /\ observers[Len(observers)].kind = "effect"
    /\ Has(Top.subs0, Len(observers))
    /\ ~Has(Top.subs0, Caller.obs)
    /\ Last(subscriptions[Top.cell]) = Caller.obs
    /\ Len(subscriptions[Top.cell]) > 2

\* The innermost of the running writes to signal c, 0 when there is none.
InnermostWrite(c) ==
    LET W == {i \in Writes : stack[i].cell = c}
    IN IF W = {} THEN 0 ELSE CHOOSE i \in W : \A j \in W : j <= i

\* C25: the commit precedes the notification: a read an observer makes while
\* the fan-out of a write executes it returns the value that write has
\* committed, the fully parsed input, as long as no observer has written to
\* the signal during the fan-out.
C25_CommitPrecedesNotify ==
    stack # <<>> /\ Top.op = "read" /\ InnermostWrite(Top.cell) # 0
    => LET w == stack[InnermostWrite(Top.cell)]
       IN /\ w.pc = "notify" /\ w.committed
          /\ ~w.nested => Top.ret = FullyParsed(Parsers(w), w.raw)

\* An effect executed by a write of " 7 " has read 7: not the raw input and not
\* the value before the write.
C25_Witness ==
    /\ stack # <<>> /\ Top.op = "read" /\ InnermostWrite(Top.cell) # 0
    /\ LET w == stack[InnermostWrite(Top.cell)]
       IN /\ ~w.nested
          /\ Parsers(w) # <<>>
          /\ Top.ret # w.raw /\ Top.ret # w.old
          /\ Top.ret = FullyParsed(Parsers(w), w.raw)
          /\ Len(w.executed) > 1

(***************************************************************************)
(* Signals whose validation stages are functions of the callers that       *)
(* return a boolean, or a message or nothing.                              *)
(***************************************************************************)
\* new Signal(10, [positiveCheck])
CheckedSignal ==
    [initialValue |-> Num(10), validators |-> <<"positiveCheck">>, parsers |-> <<>>]
\* new Signal(10, [noNegative])
UnansweredSignal ==
    [initialValue |-> Num(10), validators |-> <<"noNegative">>, parsers |-> <<>>]
\* new Signal(10, [requiredFieldsValidator([]), positiveCheck, noNegative])
MixedSignal ==
    [initialValue |-> Num(10),
     validators |-> <<"requiredFieldsValidator", "positiveCheck", "noNegative">>,
     parsers |-> <<>>]

\* The numbers the callers write to these signals.
OutcomeInputs == {Num(5), Num(0), Num(0 - 5)}

InitOutcome ==
    \E k \in {CheckedSignal, UnansweredSignal, MixedSignal} : Construct([c \in {"A"} |-> k])

NextOutcome ==
    \/ \E c \in Signals : \E raw \in OutcomeInputs : CallWrite(c, raw)
    \/ \E c \in Signals : CallCreateEffect(c, "readA")
    \/ \E c \in Signals : CallSubscribe(c, "nop")
    \/ \E o \in DOMAIN observers : CallUnsubscribe(o)
    \/ WriteParse
    \/ WriteValidate
    \/ WriteCommit
    \/ WriteNotify
    \/ WriteNotifyEnd
    \/ EffectPush
    \/ EffectPop
    \/ FnRead
    \/ FnReturn
    \/ Return

SpecOutcome == InitOutcome /\ [][NextOutcome]_vars

\* The outcomes of the validation stages of write f, in pipeline order.
Outcomes(f) == [j \in DOMAIN Validators(f) |-> Outcome(f, j).k]

\* C26: a validation stage accepts only by returning true: when a stage has
\* returned anything else (a message, false, undefined) the write returns with
\* the value as it was and no observer executed, and the write commits when
\* every stage has returned true.
C26_OnlyTrueAccepts ==
    \A i \in Writes :
        LET f == stack[i]
        IN f.pc \notin {"parse", "validate"}
           => /\ (\E j \in DOMAIN Validators(f) : Outcomes(f)[j] # "true")
                 => /\ f.pc = "done" /\ ~f.committed
                    /\ value[f.cell] = f.old
                    /\ f.executed = <<>>
              /\ (\A j \in DOMAIN Validators(f) : Outcomes(f)[j] = "true")
                 => f.pc = "commit" \/ (f.committed /\ value[f.cell] = f.raw)

\* write(0) to the signal with three stages has returned: the stages returned
\* true, false and undefined, observers are subscribed and the value is still 10.
C26_Witness ==
    \E i \in Writes :
        LET f == stack[i]
        IN /\ f.pc = "done"
           /\ Outcomes(f) = <<"true", "false", "undefined">>
           /\ Len(subscriptions[f.cell]) > 1
           /\ f.raw # f.old /\ value[f.cell] = f.old

\* The program runs on one thread and no call waits for anything: the call on
\* top of the stack always takes its next step.  A function that subscribes
\* while MaxFan observers exist is not followed further.
SpecFanFair == InitFan /\ [][NextFan]_vars /\ WF_vars(NextFan)

WriteRunning == stack # <<>> /\ stack[1].op = "write"

NoneResubscribes ==
    \A c \in Signals : \A k \in DOMAIN subscriptions[c] :
        observers[subscriptions[c][k]].fn # "subSelf"

\* Each time the loop of a write that has executed such an observer comes to
\* take its next observer, one that runs the same function and has not been
\* executed is still to come in the Set.  The end of the Set is never met.
ResubscribedGoesOn ==
    stack # <<>> /\ Top.op = "write" /\ Top.pc = "notify"
    /\ (\E k \in DOMAIN Top.executed : observers[Top.executed[k]].fn = "subSelf")
    => \E k \in DOMAIN subscriptions[Top.cell] :
          /\ k >= Top.idx
          /\ observers[subscriptions[Top.cell][k]].fn = "subSelf"
          /\ ~Has(Top.executed, subscriptions[Top.cell][k])

Writers(f) ==
    {k \in DOMAIN f.executed :
        \E n \in DOMAIN Body(observers[f.executed[k]].fn) :
            Body(observers[f.executed[k]].fn)[n].op = "reset"}

\* The value b the function of such an observer writes.
Rewritten(f) ==
    LET fn == observers[f.executed[CHOOSE k \in Writers(f) : TRUE]].fn
    IN Body(fn)[CHOOSE n \in DOMAIN Body(fn) : Body(fn)[n].op = "reset"].v

\* Once a write made by an observer of write(a) has committed b: the value is b
\* and not a, as long as write(a) runs and when it has returned; what the
\* observers executed by write(a) read is b; the nested write, when it returns,
\* has executed every subscribed observer.
C28_State ==
    \A i \in Writes :
        LET f == stack[i]
        IN /\ f.nested
              => /\ Writers(f) # {}
                 /\ value[f.cell] = Rewritten(f)
                 /\ value[f.cell] # CommitValue(f)
                 /\ Top.op = "read" /\ Top.cell = f.cell => Top.ret = Rewritten(f)
           /\ \A j \in Writes :
                 i < j /\ stack[j].cell = f.cell /\ stack[j].pc = "done" /\ stack[j].committed
                 => /\ f.nested /\ value[f.cell] = CommitValue(stack[j])
                    /\ stack[j].executed = subscriptions[f.cell]

\* While a write made by an observer is running, the writes below it execute
\* no observer: the outer fan-out goes on when the nested write has returned.
C28_Step ==
    \A i, j \in Writes :
        i < j /\ i \in DOMAIN stack'
        => stack'[i].executed = stack[i].executed /\ stack'[i].idx = stack[i].idx

\* C28: when an observer executed by write(a) makes a write(b) to the same
\* signal that commits, the nested write commits and runs its whole fan-out
\* before the outer fan-out goes on, the observers the outer fan-out still
\* executes run with the value b, and the value when the outer write returns
\* is b.
C28_LastCommitWins == []C28_State /\ [][C28_Step]_vars

\* write(7) has returned with the value 5: its first observer wrote 5, and the
\* effect it executed after that observer read the signal.
C28_Witness ==
    \E i \in Writes :
        LET f == stack[i]
        IN /\ f.pc = "done" /\ f.nested /\ Len(stack) = 1
           /\ f.raw = Num(7) /\ value[f.cell] = Num(5)
           /\ Len(f.executed) > 1
           /\ 1 \in Writers(f)
           /\ observers[Last(f.executed)].fn = "readA"

\* C29: an effect whose function never reads the signal is never among the
\* observers of the signal, and no write executes it: it runs once, when it is
\* created.
C29_NonReadingEffectRunsOnce ==
    \A o \in DOMAIN observers :
        observers[o].kind = "effect" /\ Reads(observers[o].fn) = {}
        => /\ \A c \in Signals : ~Has(subscriptions[c], o)
           /\ \A i \in Writes : ~Has(stack[i].executed, o)

(***************************************************************************)
(* A signal whose write has been replaced by the function before returns   *)
(* for it and the demo's logAdvice (src/unnamed/part_001, lines 11-19).    *)
(* The function is called as a method: this is the signal, and before      *)
(* applies the advice and the target to it.                                *)
(***************************************************************************)
\* signal.write = AOPToolkit.before(signal.write, logAdvice)
WrappedWrite == before(Fn("write"), "logAdvice")

\* The frame of c.write(raw) when write is that function.  old and subs0 record
\* the signal as the call found it.
WrappedWriteFrame(c, raw) ==
    [op |-> "call", fn |-> WrappedWrite, args |-> <<raw>>, pc |-> "start",
     calls |-> <<>>, ret |-> Undefined, err |-> Undefined,
     this |-> c, old |-> value[c], subs0 |-> subscriptions[c]]

CallWrappedWrite(c, raw) ==
    /\ Idle
    /\ stack' = <<WrappedWriteFrame(c, raw)>>
    /\ UNCHANGED <<signals, counter, value, subscriptions, context, observers>>

\* logAdvice = (args) => console.log(`Signal will update with value: ${args}`)
LogAdvice ==
    /\ At("base", "start") /\ Top.fn.target = "logAdvice"
    /\ stack' = SetTop([Top EXCEPT !.pc = "done"])
    /\ UNCHANGED <<signals, counter, value, subscriptions, context, observers>>

\* A target applied to the arguments as one array: write([raw]).
MethodWriteArray ==
    /\ At("base", "start") /\ Top.fn.target = "write"
    /\ stack' = SetTop(WriteFrame(Caller.this, Array(Top.args)))
    /\ UNCHANGED <<signals, counter, value, subscriptions, context, observers>>

\* before, line 24: targetFunction.apply(this, args) with targetFunction the
\* method write: the call is write(raw) on the signal that is this.
MethodWrite ==
    /\ At("base", "start") /\ Top.fn.target = "write"
    /\ stack' = SetTop(WriteFrame(Caller.this, Top.args[1]))
    /\ UNCHANGED <<signals, counter, value, subscriptions, context, observers>>

\* The write that before called has ended as `how`.
WriteEnded(how) ==
    /\ Len(stack) > 1 /\ Top.op = "write" /\ Top.pc = how
    /\ Caller.op = "call" /\ Kind(Caller) = "before" /\ Caller.pc = "target"
\* The record before's function keeps of that write.
LoggedWrite ==
    Append(Caller.calls, [who |-> "target", args |-> <<Top.raw>>, pc |-> Top.pc,
                          ret |-> Undefined, err |-> Undefined, frame |-> Top])

\* before, line 24: write has returned (undefined), and so does the function.
BeforeWriteReturn ==
    /\ WriteEnded("done")
    /\ Resume([Caller EXCEPT !.calls = LoggedWrite, !.pc = "done"], <<>>)
    /\ UNCHANGED <<signals, counter, value, subscriptions, context, observers>>

\* before, line 24: what write throws leaves the function.
BeforeWriteThrow ==
    /\ WriteEnded("threw")
    /\ Resume([Caller EXCEPT !.calls = LoggedWrite, !.pc = "threw"], <<>>)
    /\ UNCHANGED <<signals, counter, value, subscriptions, context, observers>>

\* The calls whose caller is not a function of the toolkit end as before.
Plain == IF Len(stack) > 1 THEN Caller.op # "call" ELSE stack # <<>>

NextLogged ==
    \/ \E c \in Signals : \E raw \in RawInputs(c) : CallWrite(c, raw)
    \/ \E c \in Signals : \E raw \in RawInputs(c) : CallWrappedWrite(c, raw)
    \/ \E c \in Signals : Len(observers) < MaxLogged /\ CallCreateEffect(c, "readA")
    \/ \E c \in Signals : \E fn \in {"nop", "throw"} :
          Len(observers) < MaxLogged /\ CallSubscribe(c, fn)
    \/ BeforeAdvice
    \/ LogAdvice
    \/ BeforeTarget
    \/ MethodWrite
    \/ BeforeWriteReturn
    \/ BeforeWriteThrow
    \/ WriteParse
    \/ WriteValidate
    \/ WriteCommit
    \/ WriteNotify
    \/ WriteNotifyEnd
    \/ EffectPush
    \/ EffectPop
    \/ FnRead
    \/ FnThrow
    \/ FnReturn
    \/ Plain /\ Return
    \/ Plain /\ Propagate

SpecLogged == Init /\ [][NextLogged]_vars

\* The first observer in S whose function throws, 0 when there is none.
FirstThrower(S) ==
    LET T == {k \in DOMAIN S : observers[S[k]].fn = "throw"}
    IN IF T = {} THEN 0 ELSE CHOOSE k \in T : \A j \in T : k <= j
\* What write f of the unwrapped signal leaves as the value, and the observers
\* it executes, given the signal as f found it.
After(f) == IF Accepted(f) THEN FullyParsed(Parsers(f), f.raw) ELSE f.old
Ran(f) ==
    IF ~Accepted(f) THEN <<>>
    ELSE IF FirstThrower(f.subs0) = 0 THEN f.subs0
         ELSE SubSeq(f.subs0, 1, FirstThrower(f.subs0))
\* Write f has ended as a write of the unwrapped signal ends.
Unwrapped(f) ==
    /\ Finished(f)
    /\ f.committed <=> Accepted(f)
    /\ f.executed = Ran(f)
    /\ f.pc = "threw" <=> \/ PassesParsing(f) /\ Throwing(f) # {}
                          \/ Accepted(f) /\ FirstThrower(f.subs0) # 0
    /\ value[f.cell] = After(f)
    /\ subscriptions[f.cell] = f.subs0

\* C30: a signal whose write is before(write, logAdvice) does on each write what
\* the unwrapped signal does: the advice is called once with the arguments, before
\* anything of the signal changes, then write runs on that signal with those
\* arguments from the state the call found, and the value it leaves and the
\* observers it executes, in their order, are those of the unwrapped write,
\* whether the write is accepted or rejected; the function ends as write ends.
C30_WrappedWriteIsWrite ==
    /\ Len(stack) = 1 /\ Top.op = "write" /\ Finished(Top) => Unwrapped(Top)
    /\ stack # <<>> /\ stack[1].op = "call"
       => LET w == stack[1]
              c == w.this
          IN /\ w.pc \in {"start", "advice"}
                => /\ w.calls = <<>>
                   /\ value[c] = w.old /\ subscriptions[c] = w.subs0
             /\ w.pc = "advice"
                => /\ stack[2].fn = Fn("logAdvice") /\ stack[2].args = w.args
             /\ w.pc = "target"
                => /\ Len(w.calls) = 1 /\ Len(stack) > 1
                   /\ stack[2].op = "write"
                      => /\ stack[2].cell = c /\ stack[2].raw = w.args[1]
                         /\ stack[2].old = w.old /\ stack[2].subs0 = w.subs0
             /\ Len(w.calls) >= 1
                => /\ w.calls[1].who = "advice" /\ w.calls[1].pc = "done"
                   /\ w.calls[1].args = w.args
             /\ Finished(w)
                => /\ Len(w.calls) = 2 /\ w.calls[2].who = "target"
                   /\ LET f == w.calls[2].frame
                      IN /\ f.cell = c /\ f.raw = w.args[1]
                         /\ f.old = w.old /\ f.subs0 = w.subs0
                         /\ Unwrapped(f)
                         /\ w.pc = f.pc

\* Wrapped writes have ended each way: rejected, accepted with two observers
\* executed in order, and left by what the first observer threw.
C30_Witness ==
    /\ Len(stack) = 1 /\ stack[1].op = "call" /\ stack[1].pc = "done"
    /\ LET f == stack[1].calls[2].frame
       IN /\ f.committed /\ Len(f.executed) = 2
          /\ observers[f.executed[1]].kind = "effect"
          /\ value[f.cell] # f.old /\ value[f.cell] # f.raw

====
